---- MODULE Spec2Model ----
(***************************************************************************)
(* Circuit breaker of resilient-circuit, in its two sibling packages:      *)
(*   "resilient_circuit"     (rc_ definitions) - state persisted to a      *)
(*                           storage, OPEN is promoted to HALF_OPEN by the *)
(*                           guard check once the cooldown has expired;    *)
(*   "highway_circutbreaker" (hw_ definitions) - no storage, OPEN lets     *)
(*                           calls through once the cooldown has expired   *)
(*                           and becomes HALF_OPEN when one succeeds.      *)
(* A wrapped call is three steps: the guard check (Call), the wrapped      *)
(* operation itself (Invoke) and the bookkeeping that follows (Bookkeep).  *)
(***************************************************************************)
EXTENDS Integers, Sequences, FiniteSets, TLC

\* ------------------------------------------------------------------ bounds
MaxDen == 3        \* largest denominator of a configured threshold
MaxCooldown == 1   \* largest configured cooldown, in clock ticks
MaxTime == 3       \* the clock stops advancing here
MaxProbes == 2     \* calls let through by one OPEN status object
MaxRetries == 2    \* largest max_retries of a retry policy
MaxDelay == 3      \* largest max_delay of a backoff, in seconds
MaxPolicies == 2   \* longest policy list given to a SafetyNet
MaxSize == 3       \* largest capacity of a buffer used on its own
MaxAdds == 5       \* most items added to a buffer used on its own
MaxAttempt == 4    \* largest small attempt number asked of a delay on its own
UniformSteps == 2  \* random.uniform draws one of 2 * UniformSteps + 1 points


\* --------------------------------------------------------------- constants
CLOSED == "CLOSED"
OPEN == "OPEN"
HALF_OPEN == "HALF_OPEN"
CircuitStatus == {CLOSED, OPEN, HALF_OPEN}

Packages == {"resilient_circuit", "highway_circutbreaker"}

\* what the wrapped operation can do: return a value, raise an exception
\* that `except Exception` catches, or raise one that it does not catch
\* (GeneratorExit is a third of that kind)
Values == {"response"}
Exceptions == {"RuntimeError", "ValueError"}
BaseExceptions == {"KeyboardInterrupt", "SystemExit"}
Outcomes ==
    [kind : {"return"}, what : Values]
        \cup [kind : {"raise"}, what : Exceptions \cup BaseExceptions]

\* o is an exception that passes through `except Exception` uncaught
uncaught(o) == o.kind = "raise" /\ o.what \in BaseExceptions
NoOutcome == [kind |-> "none", what |-> "none"]

\* the absent record of the storage (get_state returns None)
NoState == [state |-> "absent", failure_count |-> 0, open_until |-> 0]

\* ------------------------------------------------------------- fractions
RECURSIVE gcd(_, _)
gcd(a, b) == IF b = 0 THEN a ELSE gcd(b, a % b)

\* Fraction(n, d): kept in lowest terms; a zero denominator is an error
ZeroDivisionError == [numerator |-> 0, denominator |-> 0]
Fraction(n, d) ==
    IF d = 0 THEN ZeroDivisionError
    ELSE [numerator |-> n \div gcd(n, d), denominator |-> d \div gcd(n, d)]

\* x + y on fractions with positive denominators
Fraction_add(x, y) ==
    Fraction(x.numerator * y.denominator + y.numerator * x.denominator,
             x.denominator * y.denominator)

\* x >= y on fractions with positive denominators
Fraction_ge(x, y) == x.numerator * y.denominator >= y.numerator * x.denominator

DEFAULT_THRESHOLD == Fraction(1, 1)

\* the thresholds a caller writes: k/N with N <= MaxDen that a window of N
\* outcomes misses by two outcomes at most, N - 2 <= k <= N and k >= 1
Thresholds ==
    UNION {{Fraction(k, n) : k \in {j \in 1..n : j >= n - 2}} : n \in 1..MaxDen}

VARIABLES
    package,        \* which of the two sibling implementations runs
    cooldown,       \* policy.cooldown
    failure_limit,  \* policy.failure_limit
    success_limit,  \* policy.success_limit
    breaker_should_handle, \* CircuitProtectorPolicy(should_handle=...)
    now,            \* datetime.now()
    status_obj,     \* policy._status, the one live status object
    storage,        \* the record the storage holds for the resource key
    notifications,  \* observer invocations made by the call in progress
    pc,             \* where the caller is: idle, admitted, returned
    outcome,        \* what the wrapped operation did in the call in progress
    result,         \* what the last finished call gave its caller
    probes,         \* times the operation ran under the live OPEN status object
    max_retries,    \* RetryWithBackoffPolicy(max_retries=...)
    backoff,        \* RetryWithBackoffPolicy(backoff=...), None or a delay
    should_handle,  \* RetryWithBackoffPolicy(should_handle=...)
    attempt,        \* decorated(): attempt
    last_exception, \* decorated(): last_exception
    trace,          \* what the retried call in progress did: calls and sleeps
    retry_pc,       \* where the retry loop is: idle, loop
    retry_result,   \* what the last finished retried call gave its caller
    policies,       \* SafetyNet(policies=...), the list as given
    wrapped,        \* SafetyNet(...)(f): the decorated operation
    net_pc,         \* where a composed call is: idle, down (calling), up (returning), loop
    frames,         \* the policies whose decorated() is running, outermost first
    carried,        \* the outcome being handed up to the running decorated()
    net_result,     \* what the last composed call gave its caller
    cb2,            \* _status of a second policy on the same storage and key
    storage_up,     \* whether get_state / set_state work or raise
    buffer,         \* a BinaryCircularBuffer on its own
    given,          \* every item given to buffer.add, in order
    delay_fn,       \* an ExponentialDelay or FixedDelay on its own
    jitter,         \* delay_fn.jitter
    returned,       \* the last call of delay_fn.for_attempt, and what it gave
    threads,        \* two threads calling through one policy: where each is
    overlapped,     \* whether the calls in progress have run alongside one another
    sibling,        \* the same policy built from the sibling package, run alongside
    late            \* whether a call has arrived at an OPEN breaker past its cooldown

breaker_vars == <<package, cooldown, failure_limit, success_limit,
                  breaker_should_handle, now, status_obj,
                  storage, notifications, pc, outcome, result, probes>>

retry_vars == <<max_retries, backoff, should_handle, attempt, last_exception,
                trace, retry_pc, retry_result>>

net_vars == <<policies, wrapped, net_pc, frames, carried, net_result>>

shared_vars == <<cb2, storage_up>>

unit_vars == <<buffer, given, delay_fn, jitter, returned>>

twin_vars == <<threads, overlapped, sibling, late>>

vars == <<breaker_vars, retry_vars, net_vars, shared_vars, unit_vars, twin_vars>>

config == <<package, cooldown, failure_limit, success_limit, breaker_should_handle>>

\* --------------------------------------------------------------- buffer
\* faulty variant: the buffer is built with no capacity at all
BinaryCircularBuffer_unsized(size) == [size |-> 0, items |-> <<>>]

\* GenericCircularBuffer.__init__: a size below 1 is refused with
\* ValueError("`size` must be positive.") and no buffer is built
BinaryCircularBuffer(size) ==
    IF size < 1 THEN [raised |-> "ValueError"]
    ELSE [size |-> size, items |-> <<>>]

\* faulty variant: a full window keeps what it has and drops the new item
buffer_add_keep_first(buf, item) ==
    LET appended == Append(buf.items, item)
        n == Len(appended)
    IN  [buf EXCEPT !.items =
            IF n > buf.size THEN SubSeq(appended, 1, buf.size) ELSE appended]

buffer_add(buf, item) ==
    LET appended == Append(buf.items, item)
        n == Len(appended)
    IN  [buf EXCEPT !.items =
            IF n > buf.size THEN SubSeq(appended, n - buf.size + 1, n) ELSE appended]

is_full(buf) == Len(buf.items) >= buf.size

\* self._items[-self.size:]
last_items(buf) ==
    LET n == Len(buf.items)
    IN  IF n > buf.size THEN SubSeq(buf.items, n - buf.size + 1, n) ELSE buf.items

success_count(buf) == Cardinality({i \in 1..Len(buf.items) : buf.items[i] = TRUE})
\* faulty variant: whatever of the capacity is not a success is a failure
failure_count_of_size(buf) == buf.size - success_count(buf)

failure_count(buf) == Cardinality({i \in 1..Len(buf.items) : buf.items[i] = FALSE})

success_rate(buf) == Fraction(success_count(buf), Len(buf.items))
failure_rate(buf) == Fraction(failure_count(buf), Len(buf.items))

\* ------------------------------------------------------- status objects
\* A status object is a record; a field its class does not have is 0.
\* w is what a step of a call works on: the live status object (st), the
\* stored record, the observer's invocations, the windows whose success_rate
\* or failure_rate the step has read (rates) and the exception, if any, that
\* is propagating out of the breaker's own code (error).

\* policy.should_consider_failure: the default accepts every exception,
\* the classifier of the tests only RuntimeError
should_consider_failure(e) ==
    breaker_should_handle = "any" \/ e = breaker_should_handle

use_success == success_limit # DEFAULT_THRESHOLD

rc_StatusClosed(fc) ==
    [status_type |-> CLOSED,
     execution_log |-> BinaryCircularBuffer(failure_limit.denominator),
     failure_count |-> fc, open_until_timestamp |-> 0, transitioned_at |-> 0]

rc_StatusOpen(previous_status, open_until, t) ==
    [status_type |-> OPEN,
     execution_log |-> previous_status.execution_log,
     failure_count |-> previous_status.failure_count,
     open_until_timestamp |-> IF open_until > 0 THEN open_until ELSE t + cooldown,
     transitioned_at |-> 0]

\* faulty variant: the trial window always has the capacity of failure_limit
rc_StatusHalfOpen_failure_window(fc) ==
    [status_type |-> HALF_OPEN,
     execution_log |-> BinaryCircularBuffer(failure_limit.denominator),
     failure_count |-> fc, open_until_timestamp |-> 0, transitioned_at |-> 0]

rc_StatusHalfOpen(fc) ==
    [status_type |-> HALF_OPEN,
     execution_log |-> BinaryCircularBuffer(IF use_success
                                            THEN success_limit.denominator
                                            ELSE failure_limit.denominator),
     failure_count |-> fc, open_until_timestamp |-> 0, transitioned_at |-> 0]

hw_StatusClosed ==
    [status_type |-> CLOSED,
     execution_log |-> BinaryCircularBuffer(failure_limit.denominator),
     failure_count |-> 0, open_until_timestamp |-> 0, transitioned_at |-> 0]

hw_StatusOpen(previous_status, t) ==
    [status_type |-> OPEN,
     execution_log |-> previous_status.execution_log,
     failure_count |-> 0, open_until_timestamp |-> 0, transitioned_at |-> t]

hw_StatusHalfOpen ==
    [status_type |-> HALF_OPEN,
     execution_log |-> BinaryCircularBuffer(IF use_success
                                            THEN success_limit.denominator
                                            ELSE failure_limit.denominator),
     failure_count |-> 0, open_until_timestamp |-> 0, transitioned_at |-> 0]

\* self._on_status_change(self, current, new): the observer is handed the
\* policy, whose status it can read, and the two status labels
on_status_change(w, current, new) ==
    [w EXCEPT !.notifications = Append(@, <<w.st.status_type, current, new>>)]

\* self.execution_log.success_rate / failure_rate is read by a status object:
\* Fraction(count, len(self)), which raises ZeroDivisionError when the window
\* holds nothing
read_rate(w) ==
    LET read == [w EXCEPT !.rates = Append(@, w.st.execution_log)]
    IN  IF Len(w.st.execution_log.items) = 0
        THEN [read EXCEPT !.error = "ZeroDivisionError"]
        ELSE read

\* ---------------------------------------------- resilient_circuit policy
\* faulty variant: an exception of set_state is not caught and reaches the caller
rc_save_state_raising(w) ==
    IF ~storage_up THEN [w EXCEPT !.error = "StorageError"]
    ELSE [w EXCEPT !.storage =
            [state |-> w.st.status_type,
             failure_count |-> w.st.failure_count,
             open_until |-> IF w.st.status_type = OPEN
                            THEN w.st.open_until_timestamp ELSE 0]]

\* _save_state: an exception of set_state is caught and logged
rc_save_state(w) ==
    IF ~storage_up THEN w
    ELSE [w EXCEPT !.storage =
            [state |-> w.st.status_type,
             failure_count |-> w.st.failure_count,
             open_until |-> IF w.st.status_type = OPEN
                            THEN w.st.open_until_timestamp ELSE 0]]

\* faulty variant: the observer is told of the change before the status object is
\* swapped, so it still reads the previous status
rc_status_setter_notify_first(w, new_status, t, observer_raises) ==
    LET old_status == w.st.status_type
        notified == on_status_change(w, old_status, new_status)
        swapped == [notified EXCEPT !.st =
            CASE new_status = CLOSED -> rc_StatusClosed(0)
              [] new_status = OPEN -> rc_StatusOpen(w.st, t + cooldown, t)
              [] OTHER -> rc_StatusHalfOpen(0)]
    IN  IF observer_raises
        THEN [swapped EXCEPT !.error = "ObserverError"]
        ELSE rc_save_state(swapped)

\* policy.status = new_status; observer_raises: the observer raises
rc_status_setter(w, new_status, t, observer_raises) ==
    LET old_status == w.st.status_type
        swapped == [w EXCEPT !.st =
            CASE new_status = CLOSED -> rc_StatusClosed(0)
              [] new_status = OPEN -> rc_StatusOpen(w.st, t + cooldown, t)
              [] OTHER -> rc_StatusHalfOpen(0)]
        notified == on_status_change(swapped, old_status, new_status)
    IN  IF observer_raises
        THEN [notified EXCEPT !.error = "ObserverError"]
        ELSE rc_save_state(notified)

\* faulty variant: the ratio is tested although the window is not yet full
rc_StatusClosed_mark_failure_unfilled(w, t, observer_raises) ==
    LET added == [w EXCEPT !.st.failure_count = @ + 1,
                           !.st.execution_log = buffer_add(@, FALSE)]
        read == read_rate(added)
    IN  IF read.error # "none" THEN read
        ELSE IF Fraction_ge(failure_rate(added.st.execution_log), failure_limit)
        THEN rc_status_setter(read, OPEN, t, observer_raises)
        ELSE read

\* is_full and failure_rate >= failure_limit: the rate is read only when the
\* window is full
rc_StatusClosed_mark_failure(w, t, observer_raises) ==
    LET added == [w EXCEPT !.st.failure_count = @ + 1,
                           !.st.execution_log = buffer_add(@, FALSE)]
        read == read_rate(added)
    IN  IF ~is_full(added.st.execution_log) THEN added
        ELSE IF read.error # "none" THEN read
        ELSE IF Fraction_ge(failure_rate(added.st.execution_log), failure_limit)
        THEN rc_status_setter(read, OPEN, t, observer_raises)
        ELSE read

\* faulty variant: a success leaves the failure counter as it is
rc_StatusClosed_mark_success_keep_count(w) ==
    [w EXCEPT !.st.execution_log = buffer_add(@, TRUE)]

rc_StatusClosed_mark_success(w) ==
    [w EXCEPT !.st.failure_count = 0, !.st.execution_log = buffer_add(@, TRUE)]

\* faulty variant: the call made exactly at the expiry instant is still rejected
rc_StatusOpen_validate_execution_late(w, t, observer_raises) ==
    IF t > w.st.open_until_timestamp
    THEN rc_status_setter(w, HALF_OPEN, t, observer_raises)
    ELSE [w EXCEPT !.error = "ProtectedCallError"]

rc_StatusOpen_validate_execution(w, t, observer_raises) ==
    IF t >= w.st.open_until_timestamp
    THEN rc_status_setter(w, HALF_OPEN, t, observer_raises)
    ELSE [w EXCEPT !.error = "ProtectedCallError"]

rc_StatusOpen_mark_failure(w) == w

rc_StatusOpen_mark_success(w, t, observer_raises) ==
    rc_status_setter(w, HALF_OPEN, t, observer_raises)

\* faulty variant: the failure ratio is consulted first, the success ratio only
\* when the failure ratio does not open the circuit
rc_check_limit_failure_first(w, t, observer_raises) ==
    IF ~is_full(w.st.execution_log) THEN w
    ELSE IF read_rate(w).error # "none" THEN read_rate(w)
    ELSE IF Fraction_ge(failure_rate(w.st.execution_log), failure_limit)
    THEN rc_status_setter(read_rate(w), OPEN, t, observer_raises)
    ELSE IF use_success
    THEN rc_status_setter(read_rate(read_rate(w)),
            IF Fraction_ge(success_rate(w.st.execution_log), success_limit)
            THEN CLOSED ELSE OPEN, t, observer_raises)
    ELSE rc_status_setter(read_rate(w), CLOSED, t, observer_raises)

\* _check_limit: nothing is read of a window that is not full; of a full one
\* the one rate that decides is read before the status is assigned
rc_check_limit(w, t, observer_raises) ==
    IF ~is_full(w.st.execution_log) THEN w
    ELSE IF read_rate(w).error # "none" THEN read_rate(w)
    ELSE IF use_success
    THEN rc_status_setter(read_rate(w),
            IF Fraction_ge(success_rate(w.st.execution_log), success_limit)
            THEN CLOSED ELSE OPEN, t, observer_raises)
    ELSE rc_status_setter(read_rate(w),
            IF Fraction_ge(failure_rate(w.st.execution_log), failure_limit)
            THEN OPEN ELSE CLOSED, t, observer_raises)

rc_StatusHalfOpen_mark_failure(w, t, observer_raises) ==
    rc_check_limit([w EXCEPT !.st.failure_count = @ + 1,
                             !.st.execution_log = buffer_add(@, FALSE)],
                   t, observer_raises)

rc_StatusHalfOpen_mark_success(w, t, observer_raises) ==
    rc_check_limit([w EXCEPT !.st.failure_count = 0,
                             !.st.execution_log = buffer_add(@, TRUE)],
                   t, observer_raises)

\* faulty variant: past the cooldown the OPEN status lets the call through without
\* becoming HALF_OPEN first
rc_validate_execution_no_promotion(w, t, observer_raises) ==
    IF w.st.status_type = OPEN /\ t < w.st.open_until_timestamp
    THEN [w EXCEPT !.error = "ProtectedCallError"]
    ELSE w

\* self._status.validate_execution() / mark_failure() / mark_success()
rc_validate_execution(w, t, observer_raises) ==
    IF w.st.status_type = OPEN
    THEN rc_StatusOpen_validate_execution(w, t, observer_raises)
    ELSE w

rc_mark_failure(w, t, observer_raises) ==
    CASE w.st.status_type = CLOSED -> rc_StatusClosed_mark_failure(w, t, observer_raises)
      [] w.st.status_type = OPEN -> rc_StatusOpen_mark_failure(w)
      [] OTHER -> rc_StatusHalfOpen_mark_failure(w, t, observer_raises)

rc_mark_success(w, t, observer_raises) ==
    CASE w.st.status_type = CLOSED -> rc_StatusClosed_mark_success(w)
      [] w.st.status_type = OPEN -> rc_StatusOpen_mark_success(w, t, observer_raises)
      [] OTHER -> rc_StatusHalfOpen_mark_success(w, t, observer_raises)

\* decorated(), after func has returned or raised: report the outcome to
\* the live status object, then save, then return or re-raise. An
\* exception that is no Exception leaves decorated() with nothing reported
\* and nothing saved.
rc_bookkeeping(w, o, t, observer_raises) ==
    LET marked == IF o.kind = "raise" /\ should_consider_failure(o.what)
                  THEN rc_mark_failure(w, t, observer_raises)
                  ELSE rc_mark_success(w, t, observer_raises)
    IN  IF uncaught(o) THEN w
        ELSE IF marked.error # "none" THEN marked ELSE rc_save_state(marked)

\* ------------------------------------------ highway_circutbreaker policy
hw_status_setter(w, new_status, t, observer_raises) ==
    LET old_status == w.st.status_type
        swapped == [w EXCEPT !.st =
            CASE new_status = CLOSED -> hw_StatusClosed
              [] new_status = OPEN -> hw_StatusOpen(w.st, t)
              [] OTHER -> hw_StatusHalfOpen]
        notified == on_status_change(swapped, old_status, new_status)
    IN  IF observer_raises
        THEN [notified EXCEPT !.error = "ObserverError"]
        ELSE notified

hw_StatusClosed_mark_failure(w, t, observer_raises) ==
    LET added == [w EXCEPT !.st.execution_log = buffer_add(@, FALSE)]
        read == read_rate(added)
    IN  IF ~is_full(added.st.execution_log) THEN added
        ELSE IF read.error # "none" THEN read
        ELSE IF Fraction_ge(failure_rate(added.st.execution_log), failure_limit)
        THEN hw_status_setter(read, OPEN, t, observer_raises)
        ELSE read

hw_StatusClosed_mark_success(w) ==
    [w EXCEPT !.st.execution_log = buffer_add(@, TRUE)]

\* faulty variant: the cooldown is taken to be over one tick early
hw_StatusOpen_validate_execution_early(w, t) ==
    IF t - w.st.transitioned_at < cooldown - 1
    THEN [w EXCEPT !.error = "ProtectedCallError"]
    ELSE w

hw_StatusOpen_validate_execution(w, t) ==
    IF t - w.st.transitioned_at < cooldown
    THEN [w EXCEPT !.error = "ProtectedCallError"]
    ELSE w

\* faulty variant: the failure of a call admitted while OPEN is written to the window
hw_StatusOpen_mark_failure_recorded(w) ==
    [w EXCEPT !.st.execution_log = buffer_add(@, FALSE)]

hw_StatusOpen_mark_failure(w) == w

\* faulty variant: a success while OPEN closes the circuit at once
hw_StatusOpen_mark_success_closes(w, t, observer_raises) ==
    hw_status_setter(w, CLOSED, t, observer_raises)

hw_StatusOpen_mark_success(w, t, observer_raises) ==
    hw_status_setter(w, HALF_OPEN, t, observer_raises)

\* faulty variant: the rate is read and acted upon whether the window is full or not
hw_check_limit_unguarded(w, t, observer_raises) ==
    IF read_rate(w).error # "none" THEN read_rate(w)
    ELSE IF use_success
    THEN hw_status_setter(read_rate(w),
            IF Fraction_ge(success_rate(w.st.execution_log), success_limit)
            THEN CLOSED ELSE OPEN, t, observer_raises)
    ELSE hw_status_setter(read_rate(w),
            IF Fraction_ge(failure_rate(w.st.execution_log), failure_limit)
            THEN OPEN ELSE CLOSED, t, observer_raises)

hw_check_limit(w, t, observer_raises) ==
    IF ~is_full(w.st.execution_log) THEN w
    ELSE IF read_rate(w).error # "none" THEN read_rate(w)
    ELSE IF use_success
    THEN hw_status_setter(read_rate(w),
            IF Fraction_ge(success_rate(w.st.execution_log), success_limit)
            THEN CLOSED ELSE OPEN, t, observer_raises)
    ELSE hw_status_setter(read_rate(w),
            IF Fraction_ge(failure_rate(w.st.execution_log), failure_limit)
            THEN OPEN ELSE CLOSED, t, observer_raises)

hw_StatusHalfOpen_mark_failure(w, t, observer_raises) ==
    hw_check_limit([w EXCEPT !.st.execution_log = buffer_add(@, FALSE)],
                   t, observer_raises)

hw_StatusHalfOpen_mark_success(w, t, observer_raises) ==
    hw_check_limit([w EXCEPT !.st.execution_log = buffer_add(@, TRUE)],
                   t, observer_raises)

hw_validate_execution(w, t) ==
    IF w.st.status_type = OPEN THEN hw_StatusOpen_validate_execution(w, t) ELSE w

hw_mark_failure(w, t, observer_raises) ==
    CASE w.st.status_type = CLOSED -> hw_StatusClosed_mark_failure(w, t, observer_raises)
      [] w.st.status_type = OPEN -> hw_StatusOpen_mark_failure(w)
      [] OTHER -> hw_StatusHalfOpen_mark_failure(w, t, observer_raises)

hw_mark_success(w, t, observer_raises) ==
    CASE w.st.status_type = CLOSED -> hw_StatusClosed_mark_success(w)
      [] w.st.status_type = OPEN -> hw_StatusOpen_mark_success(w, t, observer_raises)
      [] OTHER -> hw_StatusHalfOpen_mark_success(w, t, observer_raises)

\* faulty variant: every exception is reported as a failure, the classifier is not
\* consulted
hw_bookkeeping_unclassified(w, o, t, observer_raises) ==
    IF o.kind = "raise"
    THEN hw_mark_failure(w, t, observer_raises)
    ELSE hw_mark_success(w, t, observer_raises)

hw_bookkeeping(w, o, t, observer_raises) ==
    IF uncaught(o) THEN w
    ELSE IF o.kind = "raise" /\ should_consider_failure(o.what)
    THEN hw_mark_failure(w, t, observer_raises)
    ELSE hw_mark_success(w, t, observer_raises)

\* ------------------------------------------------- the two packages as one
validate_execution(w, t, observer_raises) ==
    IF package = "resilient_circuit"
    THEN rc_validate_execution(w, t, observer_raises)
    ELSE hw_validate_execution(w, t)

bookkeeping(w, o, t, observer_raises) ==
    IF package = "resilient_circuit"
    THEN rc_bookkeeping(w, o, t, observer_raises)
    ELSE hw_bookkeeping(w, o, t, observer_raises)

status_setter(w, new_status, t, observer_raises) ==
    IF package = "resilient_circuit"
    THEN rc_status_setter(w, new_status, t, observer_raises)
    ELSE hw_status_setter(w, new_status, t, observer_raises)

\* faulty variant: an exception of the operation reaches the caller wrapped in the
\* package's own exception type
call_result_wrapped(w, o) ==
    IF w.error # "none" THEN [kind |-> "raise", what |-> w.error]
    ELSE IF o.kind = "raise" THEN [kind |-> "raise", what |-> "ProtectionException"]
    ELSE o

\* what decorated() gives its caller once bookkeeping is over
call_result(w, o) ==
    IF w.error # "none" THEN [kind |-> "raise", what |-> w.error] ELSE o

\* --------------------------------------------------- backoff and retry
\* no exception
None == "None"

RECURSIVE pow(_, _)
pow(b, e) == IF e = 0 THEN 1 ELSE b * pow(b, e - 1)

min(a, b) == IF a <= b THEN a ELSE b

\* delays without jitter, in whole seconds
ExponentialDelay(min_delay, max_delay, factor) ==
    [min_delay |-> min_delay, max_delay |-> max_delay, factor |-> factor]

FixedDelay(delay) == ExponentialDelay(delay, delay, 1)

\* backoff=None: no delay is configured
NoBackoff == [min_delay |-> 0, max_delay |-> 0, factor |-> 0]

\* sys.float_info: the largest binary exponent of a float, and the number
\* of bits of its mantissa
DBL_MAX_EXP == 1024
DBL_MANT_DIG == 53

\* the number of bits of b less one (the floor of its binary logarithm)
RECURSIVE log2(_)
log2(b) == IF b <= 1 THEN 0 ELSE 1 + log2(b \div 2)

\* pow(self.factor, attempt - 1) is a Python int, which has any size. An
\* integer n >= 0 is held as its digits to the base Limb, lowest first,
\* with no leading zero; 0 has no digit.
Limb == 2 ^ 12
LimbBits == log2(Limb)

RECURSIVE digits(_)
digits(n) == IF n = 0 THEN <<>> ELSE <<n % Limb>> \o digits(n \div Limb)

\* A number of more than MaxDigits digits is past everything a float can
\* hold, in a product with whole seconds too; the arithmetic stops at
\* Limb ^ MaxDigits and gives that number for everything larger.
MaxDigits == DBL_MAX_EXP \div LimbBits + 1
saturated == [i \in 1..(MaxDigits + 1) |-> IF i = MaxDigits + 1 THEN 1 ELSE 0]

RECURSIVE trimmed(_)
trimmed(a) ==
    IF a = <<>> \/ a[Len(a)] # 0 THEN a ELSE trimmed(SubSeq(a, 1, Len(a) - 1))

\* the digits of a sequence of column sums, the carries taken along
RECURSIVE propagate(_, _, _)
propagate(columns, i, carry) ==
    IF i > Len(columns) THEN digits(carry)
    ELSE LET v == columns[i] + carry
         IN  <<v % Limb>> \o propagate(columns, i + 1, v \div Limb)

digit(a, i) == IF i >= 1 /\ i <= Len(a) THEN a[i] ELSE 0

big_add(a, b) ==
    LET n == IF Len(a) >= Len(b) THEN Len(a) ELSE Len(b)
    IN  trimmed(propagate([k \in 1..n |-> digit(a, k) + digit(b, k)], 1, 0))

\* the sum of a[i] * b[k + 1 - i] over the i from the given one on
RECURSIVE column(_, _, _, _)
column(a, b, k, i) ==
    IF i > Len(a) \/ i > k THEN 0
    ELSE a[i] * digit(b, k + 1 - i) + column(a, b, k, i + 1)

big_mul(a, b) ==
    IF a = <<>> \/ b = <<>> THEN <<>>
    ELSE IF Len(a) + Len(b) - 1 > MaxDigits THEN saturated
    ELSE LET columns == [k \in 1..(Len(a) + Len(b) - 1) |->
                            column(a, b, k, IF k > Len(b) THEN k + 1 - Len(b) ELSE 1)]
             product == trimmed(propagate(columns, 1, 0))
         IN  IF Len(product) > MaxDigits THEN saturated ELSE product

\* 2 ^ k
power_of_two(k) ==
    IF k >= MaxDigits * LimbBits THEN saturated
    ELSE [i \in 1..(k \div LimbBits + 1) |->
             IF i = k \div LimbBits + 1 THEN 2 ^ (k % LimbBits) ELSE 0]

\* b ^ e by squaring, for b >= 0; a power of a power of two is written
\* down as it is
RECURSIVE big_pow(_, _)
big_pow(b, e) ==
    IF e = 0 THEN <<1>>
    ELSE IF b >= 2 /\ e >= MaxDigits * LimbBits THEN saturated
    ELSE IF b >= 1 /\ b = 2 ^ log2(b) THEN power_of_two(log2(b) * e)
    ELSE LET half == big_pow(b, e \div 2)
             square == big_mul(half, half)
         IN  IF e % 2 = 1 THEN big_mul(square, digits(b)) ELSE square

bit_length(a) ==
    IF a = <<>> THEN 0 ELSE LimbBits * (Len(a) - 1) + log2(a[Len(a)]) + 1

\* bit i of a, bit 0 being the lowest
bit(a, i) == (digit(a, i \div LimbBits + 1) \div (2 ^ (i % LimbBits))) % 2

\* a with its k lowest bits set to 0
cleared(a, k) ==
    [i \in 1..Len(a) |->
        IF LimbBits * i <= k THEN 0
        ELSE IF LimbBits * (i - 1) >= k THEN a[i]
        ELSE LET low == 2 ^ (k - LimbBits * (i - 1)) IN (a[i] \div low) * low]

\* the integer a as the nearest float, or the exact product of two floats
\* as a float: the DBL_MANT_DIG highest bits are kept and the rest is
\* rounded to the nearest, a tie to the even one
round_to_float(a) ==
    LET shift == bit_length(a) - DBL_MANT_DIG
    IN  IF shift <= 0 THEN a
        ELSE IF /\ bit(a, shift - 1) = 1
                /\ \/ bit(a, shift) = 1
                   \/ \E i \in 0..(shift - 2) : bit(a, i) = 1
        THEN big_add(cleared(a, shift), power_of_two(shift))
        ELSE cleared(a, shift)

abs(n) == IF n < 0 THEN -n ELSE n

\* float * pow(factor, e): pow gives an exact integer, and converting it
\* to a float for the product raises OverflowError when the nearest float
\* would be 2^DBL_MAX_EXP or more
int_too_large_for_float(factor, e) ==
    bit_length(round_to_float(big_pow(abs(factor), e))) > DBL_MAX_EXP

\* A float holds DBL_MANT_DIG bits, so every digit of a float below its
\* top mantissa_limbs digits is 0: a product with a small integer is made
\* with the top digits and the digits left out are put back below it.
mantissa_limbs == DBL_MANT_DIG \div LimbBits + 2

\* x * a, exactly, for an integer x >= 0 and a float a
float_times(x, a) ==
    LET low == IF Len(a) > mantissa_limbs THEN Len(a) - mantissa_limbs ELSE 0
        product == big_mul(digits(x), SubSeq(a, low + 1, Len(a)))
    IN  IF product = <<>> THEN <<>> ELSE [i \in 1..low |-> 0] \o product

\* x * float(pow(factor, e)) is inf, for whole seconds x >= 0 and a power
\* that has a float: the product of the two floats, rounded, is
\* 2^DBL_MAX_EXP or more
float_is_inf(x, factor, e) ==
    bit_length(round_to_float(
        float_times(x, round_to_float(big_pow(abs(factor), e))))) > DBL_MAX_EXP

\* a >= b
big_ge(a, b) ==
    \/ Len(a) > Len(b)
    \/ /\ Len(a) = Len(b)
       /\ \/ \A i \in 1..Len(a) : a[i] = b[i]
          \/ \E i \in 1..Len(a) :
               a[i] > b[i] /\ \A k \in (i + 1)..Len(a) : a[k] = b[k]

\* the least number that rounds to 2^DBL_MAX_EXP, half way between the
\* largest float and 2^DBL_MAX_EXP: 2^DBL_MAX_EXP - 2^(DBL_MAX_EXP -
\* DBL_MANT_DIG - 1), which is (2^h - 1) * (2^h + 1) * 2^(DBL_MAX_EXP - 2h)
\* for h = (DBL_MANT_DIG + 1) / 2
float_overflow_bound ==
    LET h == (DBL_MANT_DIG + 1) \div 2
    IN  float_times(2 ^ h + 1,
                    float_times(2 ^ h - 1, power_of_two(DBL_MAX_EXP - 2 * h)))

nan == [numerator |-> 0, denominator |-> 0]

\* min_delay.total_seconds() * pow(factor, e), for seconds x >= 0. The
\* product is multiplied out until it has reached the ceiling; from there
\* on it only grows, and the callers give a ceiling past which the exact
\* value no longer decides what is returned.
RECURSIVE scaled(_, _, _, _)
scaled(x, factor, e, ceiling) ==
    IF e = 0 \/ factor = 1 \/ x = 0 THEN x
    ELSE IF factor >= 2 /\ x >= ceiling THEN x
    ELSE scaled(x * factor, factor, e - 1, ceiling)

\* the delay in seconds for a given attempt, or the exception raised, of a
\* delay without jitter
for_attempt(self, n) ==
    IF n < 1 THEN [raised |-> "ValueError", delay |-> 0]
    ELSE IF int_too_large_for_float(self.factor, n - 1)
    THEN [raised |-> "OverflowError", delay |-> 0]
    ELSE [raised |-> None,
          delay |-> min(scaled(self.min_delay, self.factor, n - 1, self.max_delay),
                        self.max_delay)]

\* jitter=None
NoJitter == [numerator |-> 0, denominator |-> 0]

\* __post_init__: a jitter below 0 or above 1 is refused
post_init(j) ==
    IF j # NoJitter /\ (j.numerator < 0 \/ j.numerator > j.denominator)
    THEN "ValueError"
    ELSE None

Fraction_min(x, y) == IF Fraction_ge(y, x) THEN x ELSE y

\* random.uniform(-offset, offset) in steps: u of UniformSteps parts of the
\* offset, for u from -UniformSteps (the lower end) to UniformSteps
uniform(offset, u) ==
    Fraction(offset.numerator * u, offset.denominator * UniformSteps)

\* past this many seconds a delay stays above max_delay whatever the draw,
\* unless the draw takes all of it away
jitter_ceiling(self, j) == self.max_delay * j.denominator * UniformSteps + 1

\* random.uniform(-offset, offset) is -offset + (offset - -offset) * random():
\* the width of the interval, twice the offset, is inf. The offset is the
\* delay, a float, times the jitter j, taken as the exact ratio it is given
\* as: twice the offset is inf when 2 * delay * j rounds to 2^DBL_MAX_EXP.
uniform_width_is_inf(self, j, e) ==
    LET power == round_to_float(big_pow(abs(self.factor), e))
        delay == round_to_float(float_times(self.min_delay, power))
    IN  /\ j.numerator > 0
        /\ big_ge(float_times(2 * j.numerator, delay),
                  float_times(j.denominator, float_overflow_bound))

for_attempt_with_jitter(self, j, n, u) ==
    IF n < 1 THEN [raised |-> "ValueError", delay |-> Fraction(0, 1)]
    ELSE IF int_too_large_for_float(self.factor, n - 1)
    THEN [raised |-> "OverflowError", delay |-> Fraction(0, 1)]
    ELSE IF float_is_inf(self.min_delay, self.factor, n - 1)
    THEN [raised |-> None, delay |-> nan]
    ELSE IF uniform_width_is_inf(self, j, n - 1)
    THEN [raised |-> None,
          delay |-> IF u = -UniformSteps THEN nan ELSE Fraction(self.max_delay, 1)]
    ELSE LET delay == Fraction(scaled(self.min_delay, self.factor, n - 1,
                                      jitter_ceiling(self, j)), 1)
             offset == Fraction(delay.numerator * j.numerator,
                                delay.denominator * j.denominator)
             jittered == Fraction_add(delay, uniform(offset, u))
         IN  [raised |-> None,
              delay |-> Fraction_min(jittered, Fraction(self.max_delay, 1))]

\* the delays a retry policy is given
Backoffs == {FixedDelay(1), ExponentialDelay(1, MaxDelay, 2)}

\* should_handle: the default accepts every exception, the other one
\* only RuntimeError
Classifiers == {"any", "RuntimeError"}

\* faulty variant: the classifier is not consulted, every exception is retried
retry_should_consider_failure_always(e) == TRUE

retry_should_consider_failure(e) == should_handle = "any" \/ e = should_handle

\* faulty variant: one attempt more than max_retries + 1
max_attempts_one_more == max_retries + 2

max_attempts == max_retries + 1

\* what an operation under a retry policy can do: as Outcomes, with a
\* second value to return
RetriedOutcomes == Outcomes \cup [kind : {"return"}, what : {"test"}]

\* RetryWithBackoffPolicy.__init__, and a policy between two calls
RetryWithBackoffPolicy(r, b, h) ==
    /\ max_retries = r
    /\ backoff = b
    /\ should_handle = h
    /\ attempt = 0
    /\ last_exception = None
    /\ trace = <<>>
    /\ retry_pc = "idle"
    /\ retry_result = [kind |-> "none", what |-> "none", cause |-> None]

\* what the retried call did, in order: an invocation of func with its
\* outcome, or a sleep with the attempt number the delay was asked for
CallEvent(o) == [event |-> "call", outcome |-> o, n |-> 0, delay |-> 0]
SleepEvent(n, d) == [event |-> "sleep", outcome |-> NoOutcome, n |-> n, delay |-> d]

\* faulty variant: the delay is asked for the number of the attempt to come, so that
\* the first sleep is that of attempt 2
retry_iteration_next_attempt(l, o) ==
    LET called == [l EXCEPT !.trace = Append(@, CallEvent(o))]
    IN  IF o.kind = "return"
        THEN [called EXCEPT !.result = [kind |-> "return", what |-> o.what, cause |-> None]]
        ELSE IF uncaught(o) \/ ~retry_should_consider_failure(o.what)
        THEN [called EXCEPT !.result = [kind |-> "raise", what |-> o.what, cause |-> None]]
        ELSE LET counted == [called EXCEPT !.last_exception = o.what,
                                           !.attempt = @ + 1]
             IN  IF backoff = NoBackoff THEN counted
                 ELSE LET asked == for_attempt(backoff, counted.attempt + 1)
                      IN  [counted EXCEPT !.trace =
                              Append(@, SleepEvent(counted.attempt + 1, asked.delay))]

\* one pass of the while loop, func having done o. l is the loop's state:
\* attempt, last_exception, trace, and result once the call is over
retry_iteration(l, o) ==
    LET called == [l EXCEPT !.trace = Append(@, CallEvent(o))]
    IN  IF o.kind = "return"
        THEN [called EXCEPT !.result = [kind |-> "return", what |-> o.what, cause |-> None]]
        ELSE IF uncaught(o) \/ ~retry_should_consider_failure(o.what)
        THEN [called EXCEPT !.result = [kind |-> "raise", what |-> o.what, cause |-> None]]
        ELSE LET counted == [called EXCEPT !.last_exception = o.what,
                                           !.attempt = @ + 1]
             IN  IF backoff = NoBackoff THEN counted
                 ELSE LET asked == for_attempt(backoff, counted.attempt)
                      IN  IF asked.raised # None
                          THEN [counted EXCEPT !.result =
                                   [kind |-> "raise", what |-> asked.raised, cause |-> None]]
                          ELSE [counted EXCEPT !.trace =
                                   Append(@, SleepEvent(counted.attempt, asked.delay))]

\* faulty variant: the cause is the exception of the first attempt
retry_exhausted_first_cause(l) ==
    [l EXCEPT !.result = [kind |-> "raise", what |-> "RetryLimitReached",
                          cause |-> IF l.trace = <<>> THEN None
                                    ELSE l.trace[1].outcome.what]]

\* the loop is left because attempt has reached max_attempts
retry_exhausted(l) ==
    [l EXCEPT !.result = [kind |-> "raise", what |-> "RetryLimitReached",
                          cause |-> l.last_exception]]

Loop == [attempt |-> attempt, last_exception |-> last_exception, trace |-> trace,
         result |-> [kind |-> "none", what |-> "none", cause |-> None]]

\* ------------------------------------------------ composition of policies
\* The two policy objects a SafetyNet is given here: the retry policy and
\* the circuit breaker described by the variables above.
PolicyObjects == {"retry", "breaker"}

\* every list of at most MaxPolicies policies, duplicates included
PolicyLists == UNION {[1..n -> PolicyObjects] : n \in 0..MaxPolicies}

\* SafetyNet.__init__: a list that names a policy twice is refused
SafetyNet(ps) ==
    IF Len(ps) # Cardinality({ps[i] : i \in 1..Len(ps)})
    THEN [raised |-> "ValueError", policies |-> <<>>]
    ELSE [raised |-> None, policies |-> ps]

\* An operation is the list of the policies wrapped around f, outermost
\* first: f itself is the empty list, and policy(func) is the closure
\* decorated() of that policy, holding func.
f == <<>>
policy_call(policy, func) == <<policy>> \o func

reversed(s) == [i \in 1..Len(s) |-> s[Len(s) + 1 - i]]

\* func = policy(func), for each policy of ps in turn
RECURSIVE decorate_each(_, _)
decorate_each(ps, func) ==
    IF ps = <<>> THEN func
    ELSE decorate_each(Tail(ps), policy_call(Head(ps), func))

\* faulty variant: the policies are applied in the order of the list
SafetyNet_call_in_list_order(self, func) == decorate_each(self.policies, func)

\* SafetyNet.__call__: for policy in reversed(self.policies)
SafetyNet_call(self, func) == decorate_each(reversed(self.policies), func)

\* an outcome as it travels from f up through the policies
Raw(o) == [kind |-> o.kind, what |-> o.what, cause |-> None]
Raised(e) == [kind |-> "raise", what |-> e, cause |-> None]
NoResult == [kind |-> "none", what |-> "none", cause |-> None]

\* there is one policy on the storage, and the storage works
NotConstructed == [status_type |-> "none"]
NoSecondPolicy == cb2 = NotConstructed /\ storage_up = TRUE

\* no buffer and no delay is used on its own
NoReturn == [called |-> FALSE, attempt |-> 0, u |-> 0, raised |-> None,
             delay |-> Fraction(0, 1)]
NoUnits ==
    /\ buffer = BinaryCircularBuffer(1)
    /\ given = <<>>
    /\ delay_fn = NoBackoff
    /\ jitter = NoJitter
    /\ returned = NoReturn

\* one thread calls through the policy, and no sibling runs alongside
\* held: the status object the thread has read from self._status and is
\* working on (self of a mark method or of validate_execution,
\* previous_status of StatusOpen.__init__), and whether it and its window
\* are still the live ones; the other fields are the locals of the setter,
\* of the += and of the buffer, and the record _save_state is building
NoLog == [size |-> 0, items |-> <<>>]
NoHeld == [ref |-> "none", st |-> NotConstructed, log |-> "none"]
Live == [ref |-> "live", st |-> NotConstructed, log |-> "live"]
NoThread == [pc |-> "idle", outcome |-> NoOutcome, under |-> "none",
             caller |-> "none", held |-> NoHeld,
             new_status |-> "none", old_status |-> "none",
             t |-> 0, n |-> 0, items |-> <<>>, state_data |-> NoState]
NoTwins ==
    /\ threads = <<NoThread, NoThread>>
    /\ overlapped = FALSE
    /\ sibling = [st |-> NotConstructed, pc |-> "idle", result |-> NoOutcome]
    /\ late = FALSE

\* no SafetyNet is in use
NoSafetyNet ==
    /\ policies = <<>>
    /\ wrapped = f
    /\ net_pc = "idle"
    /\ frames = <<>>
    /\ carried = NoResult
    /\ net_result = NoResult

\* ------------------------------------------------------------------ steps
World == [st |-> status_obj, storage |-> storage,
          notifications |-> notifications, rates |-> <<>>, error |-> "none"]

status == status_obj.status_type
execution_log == status_obj.execution_log
changed(w) == Len(w.notifications) > Len(notifications)

Init ==
    /\ package \in Packages
    /\ cooldown \in {0, MaxCooldown}
    /\ failure_limit \in Thresholds
    /\ success_limit \in Thresholds
    /\ breaker_should_handle = "RuntimeError"
    /\ now = 1
    /\ status_obj = IF package = "resilient_circuit" THEN rc_StatusClosed(0)
                    ELSE hw_StatusClosed
    /\ storage = NoState
    /\ notifications = <<>>
    /\ pc = "idle"
    /\ outcome = NoOutcome
    /\ result = NoOutcome
    /\ probes = 0
    /\ RetryWithBackoffPolicy(3, NoBackoff, "any")
    /\ NoSafetyNet
    /\ NoSecondPolicy
    /\ NoUnits
    /\ NoTwins

\* decorated() is entered: the guard check of the live status object
Call ==
    /\ UNCHANGED unit_vars
    /\ UNCHANGED twin_vars
    /\ pc = "idle"
    /\ \E observer_raises \in BOOLEAN :
         LET w == validate_execution([World EXCEPT !.notifications = <<>>],
                                     now, observer_raises)
         IN  /\ status_obj' = w.st
             /\ storage' = w.storage
             /\ notifications' = w.notifications
             /\ pc' = IF w.error = "none" THEN "admitted" ELSE "idle"
             /\ result' = IF w.error = "none" THEN NoOutcome
                          ELSE [kind |-> "raise", what |-> w.error]
             /\ probes' = IF w.notifications # <<>> THEN 0 ELSE probes
    /\ outcome' = NoOutcome
    /\ UNCHANGED <<config, now, retry_vars, net_vars, shared_vars>>

\* func(*args, **kwargs) runs and returns or raises
Invoke ==
    /\ UNCHANGED unit_vars
    /\ UNCHANGED twin_vars
    /\ pc = "admitted"
    /\ status = OPEN => probes < MaxProbes
    /\ outcome' \in Outcomes
    /\ pc' = "returned"
    /\ probes' = IF status = OPEN THEN probes + 1 ELSE probes
    /\ UNCHANGED <<config, now, status_obj, storage, notifications, result, retry_vars, net_vars, shared_vars>>

\* the outcome is reported to the live status object and handed to the caller
Bookkeep ==
    /\ UNCHANGED unit_vars
    /\ UNCHANGED twin_vars
    /\ pc = "returned"
    /\ \E observer_raises \in BOOLEAN :
         LET w == bookkeeping(World, outcome, now, observer_raises)
         IN  /\ status_obj' = w.st
             /\ storage' = w.storage
             /\ notifications' = w.notifications
             /\ result' = call_result(w, outcome)
             /\ probes' = IF changed(w) THEN 0 ELSE probes
    /\ pc' = "idle"
    /\ outcome' = NoOutcome
    /\ UNCHANGED <<config, now, retry_vars, net_vars, shared_vars>>

\* policy.status = new_status, assigned by the caller between two calls
AssignStatus ==
    /\ UNCHANGED unit_vars
    /\ UNCHANGED twin_vars
    /\ pc = "idle"
    /\ \E new_status \in CircuitStatus, observer_raises \in BOOLEAN :
         LET w == status_setter([World EXCEPT !.notifications = <<>>],
                                new_status, now, observer_raises)
         IN  /\ status_obj' = w.st
             /\ storage' = w.storage
             /\ notifications' = w.notifications
             /\ result' = IF w.error = "none" THEN NoOutcome
                          ELSE [kind |-> "raise", what |-> w.error]
    /\ probes' = 0
    /\ outcome' = NoOutcome
    /\ UNCHANGED <<config, now, pc, retry_vars, net_vars, shared_vars>>

\* time passes
Tick ==
    /\ UNCHANGED unit_vars
    /\ UNCHANGED twin_vars
    /\ now < MaxTime
    /\ now' = now + 1
    /\ UNCHANGED <<config, status_obj, storage, notifications, pc, outcome,
                   result, probes, retry_vars, net_vars, shared_vars>>

\* ------------------------------------------------------- retried calls
InitRetry ==
    /\ \E r \in 0..MaxRetries, b \in Backoffs \cup {NoBackoff}, h \in Classifiers :
         RetryWithBackoffPolicy(r, b, h)
    /\ package = "highway_circutbreaker"
    /\ cooldown = 0
    /\ failure_limit = DEFAULT_THRESHOLD
    /\ success_limit = DEFAULT_THRESHOLD
    /\ breaker_should_handle = "any"
    /\ now = 1
    /\ status_obj = hw_StatusClosed
    /\ storage = NoState
    /\ notifications = <<>>
    /\ pc = "idle"
    /\ outcome = NoOutcome
    /\ result = NoOutcome
    /\ probes = 0
    /\ NoSafetyNet
    /\ NoSecondPolicy
    /\ NoUnits
    /\ NoTwins

\* decorated() is entered
RetryCall ==
    /\ UNCHANGED unit_vars
    /\ UNCHANGED twin_vars
    /\ retry_pc = "idle"
    /\ retry_pc' = "loop"
    /\ attempt' = 0
    /\ last_exception' = None
    /\ trace' = <<>>
    /\ retry_result' = [kind |-> "none", what |-> "none", cause |-> None]
    /\ UNCHANGED <<max_retries, backoff, should_handle, breaker_vars, net_vars, shared_vars>>

\* while attempt < self.max_attempts: func runs, its outcome is handled
RetryAttempt ==
    /\ UNCHANGED unit_vars
    /\ UNCHANGED twin_vars
    /\ retry_pc = "loop"
    /\ attempt < max_attempts
    /\ \E o \in RetriedOutcomes :
         LET l == retry_iteration(Loop, o)
         IN  /\ attempt' = l.attempt
             /\ last_exception' = l.last_exception
             /\ trace' = l.trace
             /\ retry_result' = l.result
             /\ retry_pc' = IF l.result.kind = "none" THEN "loop" ELSE "idle"
    /\ UNCHANGED <<max_retries, backoff, should_handle, breaker_vars, net_vars, shared_vars>>

\* raise RetryLimitReached from last_exception
RetryExhausted ==
    /\ UNCHANGED unit_vars
    /\ UNCHANGED twin_vars
    /\ retry_pc = "loop"
    /\ ~(attempt < max_attempts)
    /\ LET l == retry_exhausted(Loop)
       IN  /\ retry_result' = l.result
           /\ UNCHANGED <<attempt, last_exception, trace>>
    /\ retry_pc' = "idle"
    /\ UNCHANGED <<max_retries, backoff, should_handle, breaker_vars, net_vars, shared_vars>>

NextRetry == RetryCall \/ RetryAttempt \/ RetryExhausted

\* the loop is straight-line code: once entered it keeps running, given
\* that func itself returns or raises
SpecRetry ==
    InitRetry /\ [][NextRetry]_vars /\ WF_vars(RetryAttempt) /\ WF_vars(RetryExhausted)

Next == Call \/ Invoke \/ Bookkeep \/ AssignStatus \/ Tick

Spec == Init /\ [][Next]_vars

\* ------------------------------------------------------- composed calls
\* the policies of the list are constructed, then the SafetyNet, which
\* decorates f; a policy that is not in the list keeps its defaults. The
\* breaker of a composed call has the default failure_limit, as in
\* test_failsafe.py, or 1/2, which the first failure does not reach.
InitNet ==
    /\ policies \in PolicyLists
    /\ IF \E i \in 1..Len(policies) : policies[i] = "breaker"
       THEN /\ package \in Packages
            /\ cooldown \in {0, MaxCooldown}
            /\ failure_limit \in {DEFAULT_THRESHOLD, Fraction(1, 2)}
            /\ breaker_should_handle \in Classifiers
       ELSE /\ package = "highway_circutbreaker"
            /\ cooldown = 0
            /\ failure_limit = DEFAULT_THRESHOLD
            /\ breaker_should_handle = "any"
    /\ success_limit = DEFAULT_THRESHOLD
    /\ now = 1
    /\ status_obj = IF package = "resilient_circuit" THEN rc_StatusClosed(0)
                    ELSE hw_StatusClosed
    /\ storage = NoState
    /\ notifications = <<>>
    /\ pc = "idle"
    /\ outcome = NoOutcome
    /\ result = NoOutcome
    /\ probes = 0
    /\ IF \E i \in 1..Len(policies) : policies[i] = "retry"
       THEN \E r \in 0..MaxRetries, b \in {NoBackoff, FixedDelay(1)} :
               RetryWithBackoffPolicy(r, b, "any")
       ELSE RetryWithBackoffPolicy(3, NoBackoff, "any")
    /\ wrapped = IF SafetyNet(policies).raised = None
                 THEN SafetyNet_call(SafetyNet(policies), f) ELSE f
    /\ net_pc = "idle"
    /\ frames = <<>>
    /\ carried = NoResult
    /\ net_result = IF SafetyNet(policies).raised = None
                    THEN NoResult ELSE Raised(SafetyNet(policies).raised)
    /\ NoSecondPolicy
    /\ NoUnits
    /\ NoTwins

\* the operation that the innermost running decorated() calls as func
callee == SubSeq(wrapped, Len(frames) + 1, Len(wrapped))

\* the decorated operation is called
NetCall ==
    /\ UNCHANGED unit_vars
    /\ UNCHANGED twin_vars
    /\ UNCHANGED shared_vars
    /\ net_pc = "idle"
    /\ SafetyNet(policies).raised = None
    /\ net_pc' = "down"
    /\ frames' = <<>>
    /\ carried' = NoResult
    /\ net_result' = NoResult
    /\ trace' = <<>>
    /\ notifications' = <<>>
    /\ UNCHANGED <<config, now, status_obj, storage, pc, outcome, result, probes,
                   max_retries, backoff, should_handle, attempt, last_exception,
                   retry_pc, retry_result, policies, wrapped>>

\* the callee is a policy's decorated(): it runs up to its call of func -
\* the breaker makes its guard check, the retry policy enters its loop
EnterPolicy ==
    /\ UNCHANGED unit_vars
    /\ UNCHANGED twin_vars
    /\ UNCHANGED shared_vars
    /\ net_pc = "down"
    /\ callee # f
    /\ IF Head(callee) = "breaker"
       THEN \E observer_raises \in BOOLEAN :
            LET w == validate_execution(World, now, observer_raises)
            IN  /\ status_obj' = w.st
                /\ storage' = w.storage
                /\ notifications' = w.notifications
                /\ IF w.error # "none"
                   THEN net_pc' = "up" /\ carried' = Raised(w.error) /\ frames' = frames
                   ELSE net_pc' = "down" /\ carried' = carried
                        /\ frames' = Append(frames, "breaker")
                /\ UNCHANGED <<attempt, last_exception>>
       ELSE /\ attempt' = 0
            /\ last_exception' = None
            /\ IF 0 < max_attempts
               THEN net_pc' = "down" /\ carried' = carried
                    /\ frames' = Append(frames, "retry")
               ELSE net_pc' = "up" /\ frames' = frames
                    /\ carried' = retry_exhausted([Loop EXCEPT !.attempt = 0,
                                                   !.last_exception = None]).result
            /\ UNCHANGED <<status_obj, storage, notifications>>
    /\ UNCHANGED <<config, now, pc, outcome, result, probes, max_retries, backoff,
                   should_handle, trace, retry_pc, retry_result, policies, wrapped,
                   net_result>>

\* the callee is f itself: it runs and returns or raises
InvokeF ==
    /\ UNCHANGED unit_vars
    /\ UNCHANGED twin_vars
    /\ UNCHANGED shared_vars
    /\ net_pc = "down"
    /\ callee = f
    /\ \E o \in Outcomes :
         /\ trace' = Append(trace, CallEvent(o))
         /\ carried' = Raw(o)
    /\ net_pc' = "up"
    /\ UNCHANGED <<breaker_vars, max_retries, backoff, should_handle, attempt,
                   last_exception, retry_pc, retry_result, policies, wrapped, frames,
                   net_result>>

\* func has returned or raised into the innermost running decorated(): the
\* breaker does its bookkeeping and hands the outcome on; the retry policy
\* hands it on, or counts the failure and sleeps
LeavePolicy ==
    /\ UNCHANGED unit_vars
    /\ UNCHANGED twin_vars
    /\ UNCHANGED shared_vars
    /\ net_pc = "up"
    /\ frames # <<>>
    /\ IF frames[Len(frames)] = "breaker"
       THEN \E observer_raises \in BOOLEAN :
            LET w == bookkeeping(World, carried, now, observer_raises)
            IN  /\ status_obj' = w.st
                /\ storage' = w.storage
                /\ notifications' = w.notifications
                /\ carried' = IF w.error # "none" THEN Raised(w.error) ELSE carried
                /\ net_pc' = "up"
                /\ frames' = SubSeq(frames, 1, Len(frames) - 1)
                /\ UNCHANGED <<attempt, last_exception, trace, now>>
       ELSE LET l == retry_iteration([Loop EXCEPT !.trace = <<>>], carried)
                slept == Len(l.trace) = 2
                delay == IF slept THEN l.trace[2].delay ELSE 0
            IN  /\ now + delay <= MaxTime
                /\ now' = now + delay
                /\ trace' = IF slept THEN Append(trace, l.trace[2]) ELSE trace
                /\ attempt' = l.attempt
                /\ last_exception' = l.last_exception
                /\ IF l.result.kind # "none"
                   THEN /\ carried' = l.result
                        /\ net_pc' = "up"
                        /\ frames' = SubSeq(frames, 1, Len(frames) - 1)
                   ELSE /\ carried' = carried
                        /\ net_pc' = "loop"
                        /\ frames' = frames
                /\ UNCHANGED <<status_obj, storage, notifications>>
    /\ UNCHANGED <<config, pc, outcome, result, probes, max_retries, backoff,
                   should_handle, retry_pc, retry_result, policies, wrapped, net_result>>

\* the sleep is over and the retry policy is at its while condition: it
\* calls func again, or leaves the loop and raises RetryLimitReached
ResumePolicy ==
    /\ UNCHANGED unit_vars
    /\ UNCHANGED twin_vars
    /\ UNCHANGED shared_vars
    /\ net_pc = "loop"
    /\ IF attempt < max_attempts
       THEN /\ carried' = carried
            /\ net_pc' = "down"
            /\ frames' = frames
       ELSE /\ carried' = retry_exhausted(Loop).result
            /\ net_pc' = "up"
            /\ frames' = SubSeq(frames, 1, Len(frames) - 1)
    /\ UNCHANGED <<breaker_vars, retry_vars, policies, wrapped, net_result>>

\* the outermost decorated() has returned or raised to the caller
NetReturn ==
    /\ UNCHANGED unit_vars
    /\ UNCHANGED twin_vars
    /\ UNCHANGED shared_vars
    /\ net_pc = "up"
    /\ frames = <<>>
    /\ net_result' = carried
    /\ net_pc' = "idle"
    /\ UNCHANGED <<breaker_vars, retry_vars, policies, wrapped, frames, carried>>

NextNet ==
    \/ NetCall \/ EnterPolicy \/ InvokeF \/ LeavePolicy \/ ResumePolicy \/ NetReturn
    \/ Tick

SpecNet == InitNet /\ [][NextNet]_vars

\* ------------------------------------- two policies on one storage and key
\* faulty variant: the saved expiry of an OPEN record is dropped, the
\* cooldown starts again when the policy is constructed
rc_load_state_fresh_cooldown(t) ==
    IF ~storage_up THEN rc_StatusClosed(0)
    ELSE IF storage = NoState THEN rc_StatusClosed(0)
    ELSE IF storage.state = CLOSED THEN rc_StatusClosed(storage.failure_count)
    ELSE IF storage.state = OPEN
         THEN rc_StatusOpen(rc_StatusClosed(storage.failure_count), 0, t)
    ELSE IF storage.state = HALF_OPEN THEN rc_StatusHalfOpen(storage.failure_count)
    ELSE rc_StatusClosed(0)

\* _load_state: the policy's first status object, made from the stored
\* record; a get_state that raises, and a record whose label is no
\* CircuitStatus (CircuitStatus(label) raises ValueError), both end in the
\* except branch
rc_load_state(t) ==
    IF ~storage_up THEN rc_StatusClosed(0)
    ELSE IF storage = NoState THEN rc_StatusClosed(0)
    ELSE IF storage.state = CLOSED THEN rc_StatusClosed(storage.failure_count)
    ELSE IF storage.state = OPEN
         THEN rc_StatusOpen(rc_StatusClosed(storage.failure_count), storage.open_until, t)
    ELSE IF storage.state = HALF_OPEN THEN rc_StatusHalfOpen(storage.failure_count)
    ELSE rc_StatusClosed(0)

\* a record that no policy wrote
UnknownLabel == [state |-> "UNKNOWN", failure_count |-> 0, open_until |-> 0]

\* the first policy, cb1, is constructed on an empty storage, with the
\* given failure_limit and one of the given cooldowns
SharedPolicy(limit, cooldowns) ==
    /\ package = "resilient_circuit"
    /\ cooldown \in cooldowns
    /\ failure_limit = limit
    /\ success_limit = DEFAULT_THRESHOLD
    /\ breaker_should_handle = "RuntimeError"
    /\ now = 1
    /\ storage = NoState
    /\ storage_up = TRUE
    /\ status_obj = rc_load_state(now)
    /\ cb2 = NotConstructed
    /\ notifications = <<>>
    /\ pc = "idle"
    /\ outcome = NoOutcome
    /\ result = NoOutcome
    /\ probes = 0
    /\ RetryWithBackoffPolicy(3, NoBackoff, "any")
    /\ NoSafetyNet
    /\ NoUnits
    /\ NoTwins

\* cb2 = CircuitProtectorPolicy(resource_key=..., storage=...), with the
\* key, the storage and the settings of the policy in use
Construct ==
    /\ UNCHANGED unit_vars
    /\ UNCHANGED twin_vars
    /\ pc = "idle"
    /\ cb2 = NotConstructed
    /\ cb2' = rc_load_state(now)
    /\ UNCHANGED <<breaker_vars, retry_vars, net_vars, storage_up>>

\* the caller turns to the other policy: status_obj is the status object of
\* the policy that the next call or assignment is made on
UseOther ==
    /\ UNCHANGED unit_vars
    /\ UNCHANGED twin_vars
    /\ pc = "idle"
    /\ cb2 # NotConstructed
    /\ status_obj' = cb2
    /\ cb2' = status_obj
    /\ probes' = 0
    /\ notifications' = <<>>
    /\ result' = NoOutcome
    /\ UNCHANGED <<config, now, storage, pc, outcome, retry_vars, net_vars, storage_up>>

\* the storage stops working (get_state and set_state raise), or works again
StorageOutage ==
    /\ UNCHANGED unit_vars
    /\ UNCHANGED twin_vars
    /\ pc = "idle"
    /\ storage_up' = ~storage_up
    /\ UNCHANGED <<breaker_vars, retry_vars, net_vars, cb2>>

\* somebody else writes a record with a label that is no CircuitStatus,
\* before the second policy is constructed
ForeignWrite ==
    /\ UNCHANGED unit_vars
    /\ UNCHANGED twin_vars
    /\ pc = "idle"
    /\ cb2 = NotConstructed
    /\ storage_up
    /\ storage # UnknownLabel
    /\ storage' = UnknownLabel
    /\ UNCHANGED <<config, now, status_obj, notifications, pc, outcome, result,
                   probes, retry_vars, net_vars, shared_vars>>

\* a window of one outcome, every cooldown; the storage can fail and can
\* be written by somebody else
InitShared == SharedPolicy(Fraction(1, 1), 0..MaxCooldown)

NextShared ==
    \/ Call \/ Invoke \/ Bookkeep \/ AssignStatus \/ Tick
    \/ Construct \/ UseOther \/ StorageOutage \/ ForeignWrite

SpecShared == InitShared /\ [][NextShared]_vars

\* a window of two outcomes and the longest cooldown, on a storage that
\* works and that only the two policies write
InitSharedUp == SharedPolicy(Fraction(1, 2), {MaxCooldown})

NextSharedUp ==
    \/ Call \/ Invoke \/ Bookkeep \/ AssignStatus \/ Tick
    \/ Construct \/ UseOther

SpecSharedUp == InitSharedUp /\ [][NextSharedUp]_vars

TypeOK ==
    /\ status \in CircuitStatus
    /\ pc \in {"idle", "admitted", "returned"}
    /\ Len(execution_log.items) <= execution_log.size

\* ------------------------------------------------------ reading a state
items == execution_log.items
LastN(s, n) == IF Len(s) > n THEN SubSeq(s, Len(s) - n + 1, Len(s)) ELSE s
Count(s, b) == Cardinality({i \in 1..Len(s) : s[i] = b})

\* the call in progress raised an exception the classifier counts
counted_failure ==
    /\ outcome.kind = "raise"
    /\ ~uncaught(outcome)
    /\ should_consider_failure(outcome.what)

\* the step that ends a call whose operation was invoked
BookkeepStep == pc = "returned" /\ pc' = "idle"

\* the step that ends a call whose operation returned or raised an
\* Exception: the outcome is reported to the status object
RecordStep == BookkeepStep /\ ~uncaught(outcome)

\* the instant at which the cooldown of the live OPEN status expires
cooldown_expiry ==
    IF package = "resilient_circuit" THEN status_obj.open_until_timestamp
    ELSE status_obj.transitioned_at + cooldown

RaisedBy(e) == [kind |-> "raise", what |-> e]

\* the observer's invocation for current -> new, made when the policy's
\* status already reads new
Notified(current, new) == <<new, current, new>>

\* ------------------------------------------------------------------ C1
\* C1: a call made while CLOSED moves the breaker to OPEN if and only if the
\* call raised a counted exception and, once false is appended, the window
\* holds N = denominator(failure_limit) outcomes of which failures/N >=
\* failure_limit; every other call made while CLOSED leaves it CLOSED.
C1_ClosedOpensIff ==
    [][(status = CLOSED /\ pc' # pc) =>
         LET after == LastN(Append(items, FALSE), failure_limit.denominator)
         IN  /\ status' \in {CLOSED, OPEN}
             /\ status' = OPEN <=>
                  /\ BookkeepStep
                  /\ counted_failure
                  /\ Len(after) = failure_limit.denominator
                  /\ Count(after, FALSE) * failure_limit.denominator
                       >= failure_limit.numerator * Len(after)]_vars

\* under failure_limit 2/3 a counted failure has just filled the window of
\* three with a failure ratio of 1/3, below the limit, and the breaker has
\* stayed CLOSED
C1_Witness ==
    /\ status = CLOSED /\ pc = "idle"
    /\ notifications = <<>>
    /\ result = RaisedBy("RuntimeError")
    /\ failure_limit = Fraction(2, 3)
    /\ items = <<TRUE, TRUE, FALSE>>

\* ------------------------------------------------------------------ C2
\* C2: starting from a fresh CLOSED breaker with failure_limit k/N, the
\* status becomes OPEN on the first call after which N outcomes have been
\* recorded and the last N of them include at least k failures, and on no
\* earlier call: a call made while CLOSED opens the breaker exactly when the
\* window it leaves behind is full and holds at least k failures.
C2_OpensOnFirstQualifyingCall ==
    [][(status = CLOSED /\ BookkeepStep) =>
         LET after == LastN(Append(items, ~counted_failure), failure_limit.denominator)
         IN  status' = OPEN <=>
               /\ Len(after) = failure_limit.denominator
               /\ Count(after, FALSE) >= failure_limit.numerator]_vars

\* ------------------------------------------------------------------ C3
\* C3: while OPEN with the cooldown not yet elapsed every call is rejected
\* with ProtectedCallError, the operation is not invoked, and the status
\* object (status, window, expiry instant) and the stored record are left
\* exactly as they were.
C3_RejectionChangesNothing ==
    [][(Call /\ status = OPEN /\ now < cooldown_expiry) =>
         /\ pc' = "idle"
         /\ result' = RaisedBy("ProtectedCallError")
         /\ status_obj' = status_obj
         /\ storage' = storage
         /\ probes' = probes]_vars

\* a call has just been rejected by a breaker that a failure had opened
C3_Witness ==
    /\ status = OPEN /\ pc = "idle"
    /\ result = RaisedBy("ProtectedCallError")
    /\ now < cooldown_expiry
    /\ items = <<FALSE>>

\* ------------------------------------------------------------------ C4
\* no call has been let through yet by the live OPEN status object: the call
\* that arrives is the first one made since the circuit opened to find the
\* cooldown over
first_after_expiry == probes = 0

\* C4 as stated: an OPEN breaker rejects every call made strictly before
\* the cooldown has elapsed and admits (invokes the operation for) the first
\* call made at or after entry-time + cooldown, the boundary instant
\* included; with cooldown 0 no call is ever rejected.
C4_AdmitsAtExpiry ==
    [][Call =>
         /\ (status = OPEN /\ now < cooldown_expiry) =>
                pc' = "idle" /\ result' = RaisedBy("ProtectedCallError")
         /\ (status = OPEN /\ now >= cooldown_expiry /\ first_after_expiry) =>
                pc' = "admitted"
         /\ cooldown = 0 => result' # RaisedBy("ProtectedCallError")]_vars

\* C4 as amended: the same, except that in resilient_circuit the first call
\* made at or after expiry notifies the observer of OPEN -> HALF_OPEN before
\* the operation is invoked, and if the observer raises, that call ends with
\* the observer's exception and the operation is not invoked.
C4_AdmitsAtExpiryUnlessObserverRaises ==
    [][Call =>
         /\ (status = OPEN /\ now < cooldown_expiry) =>
                pc' = "idle" /\ result' = RaisedBy("ProtectedCallError")
         /\ (status = OPEN /\ now >= cooldown_expiry /\ first_after_expiry) =>
                \/ pc' = "admitted"
                \/ /\ package = "resilient_circuit"
                   /\ notifications' = << Notified(OPEN, HALF_OPEN) >>
                   /\ pc' = "idle"
                   /\ result' = RaisedBy("ObserverError")
         /\ cooldown = 0 => result' # RaisedBy("ProtectedCallError")]_vars

\* the first call to arrive since the circuit opened has been admitted by the
\* OPEN breaker at the very instant its cooldown of one tick expired
C4_Witness ==
    /\ package = "highway_circutbreaker"
    /\ status = OPEN /\ pc = "admitted"
    /\ first_after_expiry
    /\ cooldown = 1
    /\ now = status_obj.transitioned_at + cooldown

\* ------------------------------------------------------------------ C5
\* C5: when a recorded outcome fills the HALF_OPEN window, the next status
\* is CLOSED iff success_ratio >= success_limit (else OPEN) if success_limit
\* differs from 1/1, whatever failure_limit would decide; with success_limit
\* 1/1 it is OPEN iff failure_ratio >= failure_limit (else CLOSED).
C5_HalfOpenDecision ==
    [][(status = HALF_OPEN /\ RecordStep) =>
         LET after == Append(items, ~counted_failure)
             n == Len(after)
         IN  n = execution_log.size =>
               IF success_limit # Fraction(1, 1)
               THEN status' = IF Count(after, TRUE) * success_limit.denominator
                                   >= success_limit.numerator * n
                              THEN CLOSED ELSE OPEN
               ELSE status' = IF Count(after, FALSE) * failure_limit.denominator
                                   >= failure_limit.numerator * n
                              THEN OPEN ELSE CLOSED]_vars

\* success_limit 1/2 has closed the circuit on a window of one success and
\* one failure, on which failure_limit 1/2 would have opened it
C5_Witness ==
    /\ status = CLOSED /\ pc = "idle"
    /\ notifications = << Notified(HALF_OPEN, CLOSED) >>
    /\ result = RaisedBy("RuntimeError")
    /\ success_limit = Fraction(1, 2)
    /\ failure_limit = Fraction(1, 2)

\* ------------------------------------------------------------------ C6
\* C6 (resilient_circuit): the call made at or after cooldown expiry moves
\* the breaker OPEN -> HALF_OPEN, with an empty window, before the operation
\* is invoked, and the outcome of that call is the first entry of the
\* HALF_OPEN window; with thresholds 1/1 that entry fills the window, so a
\* success leaves the breaker CLOSED and a counted failure leaves it OPEN.
C6_PromotedBeforeInvocation ==
    [][package = "resilient_circuit" =>
         /\ (Call /\ status = OPEN /\ now >= cooldown_expiry) =>
               /\ status' = HALF_OPEN
               /\ items' = <<>>
               /\ notifications' = << Notified(OPEN, HALF_OPEN) >>
         /\ (pc = "admitted" /\ pc' = "returned") =>
               status' = status /\ status # OPEN
         /\ (RecordStep /\ notifications = << Notified(OPEN, HALF_OPEN) >>) =>
               IF failure_limit = Fraction(1, 1) /\ success_limit = Fraction(1, 1)
               THEN status' = IF counted_failure THEN OPEN ELSE CLOSED
               ELSE status' = HALF_OPEN /\ items' = <<~counted_failure>>]_vars

\* the call that found the cooldown expired failed, and with thresholds 1/1
\* the breaker is OPEN again, through HALF_OPEN
C6_Witness ==
    /\ package = "resilient_circuit"
    /\ status = OPEN /\ pc = "idle"
    /\ notifications = << Notified(OPEN, HALF_OPEN), Notified(HALF_OPEN, OPEN) >>
    /\ result = RaisedBy("RuntimeError")
    /\ failure_limit = Fraction(1, 1) /\ success_limit = Fraction(1, 1)
    /\ cooldown = 1

\* ------------------------------------------------------------------ C7
\* C7 (highway_circutbreaker): once the cooldown has elapsed the OPEN
\* breaker lets exactly one probing call through - between entering OPEN
\* and the next status change the operation is invoked at most once.
C7_AtMostOneProbe ==
    (package = "highway_circutbreaker" /\ status = OPEN) => probes <= 1

\* ------------------------------------------------------------------ C8
\* C8 (highway_circutbreaker): a call admitted while OPEN that raises a
\* counted exception leaves the status object as it was (status OPEN, same
\* window, same entry instant); one that returns or raises a non-counted
\* exception moves the breaker to HALF_OPEN with an empty window.
C8_ProbeOutcome ==
    [][(package = "highway_circutbreaker" /\ status = OPEN /\ RecordStep) =>
         IF counted_failure
         THEN status_obj' = status_obj /\ notifications' = notifications
         ELSE /\ status' = HALF_OPEN
              /\ items' = <<>>
              /\ notifications' = << Notified(OPEN, HALF_OPEN) >>]_vars

\* a probe has failed: the breaker is still OPEN with the window that the
\* CLOSED status had when it opened
C8_Witness ==
    /\ package = "highway_circutbreaker"
    /\ status = OPEN /\ pc = "idle"
    /\ probes = 1
    /\ result = RaisedBy("RuntimeError")
    /\ items = <<TRUE, FALSE>>

\* ------------------------------------------------------------------ C9
\* C9 as stated: for every admitted call, in every state, the operation is
\* invoked exactly once, nothing is recorded before it has run, and the
\* call gives its caller exactly what the operation gave: the same value
\* if it returned, the same exception if it raised.
C9_SameResult ==
    [][/\ (pc = "admitted" /\ pc' # pc) =>
            /\ pc' = "returned"
            /\ outcome' \in Outcomes
            /\ status_obj' = status_obj /\ storage' = storage
       /\ (pc' = "returned" /\ pc' # pc) => pc = "admitted"
       /\ BookkeepStep => result' = outcome]_vars

\* C9 as amended: the same, except that when the bookkeeping of the call
\* changes the status and the observer raises on that change, the caller
\* gets the observer's exception in place of the operation's result or
\* exception.
C9_SameResultUnlessObserverRaises ==
    [][/\ (pc = "admitted" /\ pc' # pc) =>
            /\ pc' = "returned"
            /\ outcome' \in Outcomes
            /\ status_obj' = status_obj /\ storage' = storage
       /\ (pc' = "returned" /\ pc' # pc) => pc = "admitted"
       /\ BookkeepStep =>
            \/ result' = outcome
            \/ /\ result' = RaisedBy("ObserverError")
               /\ status' # status
               /\ notifications' = Append(notifications, Notified(status, status'))]_vars

\* a successful call has closed the circuit from HALF_OPEN, the observer
\* has been told, and the caller has the operation's value
C9_Witness ==
    /\ package = "resilient_circuit"
    /\ status = CLOSED /\ pc = "idle"
    /\ notifications = << Notified(HALF_OPEN, CLOSED) >>
    /\ result = [kind |-> "return", what |-> "response"]
    /\ storage.state = CLOSED

\* ------------------------------------------------------------------ C10
\* C10: in CLOSED an exception that the classifier rejects is recorded as a
\* success - true is appended to the window, the oldest entry leaving if
\* the window was full - and the breaker stays CLOSED whatever the window
\* holds.
C10_RejectedExceptionIsSuccess ==
    [][(status = CLOSED /\ RecordStep /\ outcome.kind = "raise"
          /\ ~should_consider_failure(outcome.what)) =>
         /\ status' = CLOSED
         /\ items' = LastN(Append(items, TRUE), failure_limit.denominator)
         /\ result' = outcome]_vars

\* a ValueError has completed a window of two that held a failure: the
\* window is full with failure ratio 1/2 = failure_limit, true is its last
\* entry and the breaker is CLOSED
C10_Witness ==
    /\ status = CLOSED /\ pc = "idle"
    /\ result = RaisedBy("ValueError")
    /\ failure_limit = Fraction(1, 2)
    /\ items = <<FALSE, TRUE>>

\* the status the breaker had when the call in progress was made
status_before_call == IF notifications = <<>> THEN status ELSE notifications[1][2]

\* the call in progress raised an exception the classifier rejects
rejected_exception ==
    /\ outcome.kind = "raise"
    /\ ~uncaught(outcome)
    /\ ~should_consider_failure(outcome.what)

\* ------------------------------------------------------------------ C11
\* C11: an exception that the classifier rejects is never counted - in
\* every state (CLOSED, HALF_OPEN, OPEN past cooldown) a call that raises
\* such an exception leaves the status exactly as it was before the call.
C11_RejectedExceptionKeepsStatus ==
    [][(BookkeepStep /\ rejected_exception) => status' = status_before_call]_vars

\* ------------------------------------------------------------------ C12
\* C12: for a breaker configured with failure_limit written as k/N
\* (1 <= k <= N), lowest terms or not, the CLOSED window has capacity N, the
\* breaker cannot open before N outcomes have been recorded, and it opens
\* only when at least k of the N windowed outcomes are failures.
C12_DenominatorIsSampleSize ==
    [][\A N \in 1..MaxDen : \A k \in 1..N :
         (failure_limit = Fraction(k, N) /\ status = CLOSED) =>
            /\ execution_log.size = N
            /\ (BookkeepStep /\ status' = OPEN) =>
                 LET after == LastN(Append(items, ~counted_failure), N)
                 IN  Len(after) = N /\ Count(after, FALSE) >= k]_vars

\* ------------------------------------------------------------------ C13
\* C13: every status transition, made by a wrapped call or by assigning
\* policy.status, invokes the observer exactly once with (policy, previous
\* status, new status), the policy's status already reading the new status
\* when the observer runs; a step of a call that changes no status invokes
\* no observer, and the invocations of one call are in the order of its
\* transitions, each starting from the status the one before it ended in.
C13_ObserverOncePerTransition ==
    [][LET before == IF pc = "idle" THEN <<>> ELSE notifications
       IN  /\ status' # status =>
                notifications' = Append(before, <<status', status, status'>>)
           /\ (status' = status /\ pc' # pc) => notifications' = before
           /\ \A i \in 1..Len(notifications') :
                /\ notifications'[i][1] = notifications'[i][3]
                /\ i < Len(notifications') =>
                     notifications'[i][3] = notifications'[i + 1][2]]_vars

\* one call has moved the breaker OPEN -> HALF_OPEN -> CLOSED: the observer
\* ran twice, in that order, each time seeing the new status
C13_Witness ==
    /\ package = "resilient_circuit"
    /\ status = CLOSED /\ pc = "idle"
    /\ notifications = << <<HALF_OPEN, OPEN, HALF_OPEN>>, <<CLOSED, HALF_OPEN, CLOSED>> >>
    /\ result = [kind |-> "return", what |-> "response"]

\* ------------------------------------------------------------------ C14
\* C14 (resilient_circuit): every status transition has been written to the
\* storage by the time control returns to the caller, however it returns -
\* normal return, the operation's exception, a circuit-open rejection or an
\* exception propagating out of the observer: whenever the caller has
\* control back from a call or an assignment that changed the status, the
\* stored record carries the label of the live status.
C14_TransitionSavedOnReturn ==
    (/\ package = "resilient_circuit"
     /\ pc = "idle"
     /\ \E i \in 1..Len(notifications) : notifications[i][2] # notifications[i][3]) =>
        storage.state = status

\* ----------------------------------------------- reading a retried call
\* the invocations of func by the retried call, and its sleeps, in order
IsCall(e) == e.event = "call"
IsSleep(e) == e.event = "sleep"
calls == SelectSeq(trace, IsCall)
sleeps == SelectSeq(trace, IsSleep)
invocations == Len(calls)

\* the invocation raised an exception the retry policy's classifier accepts
classified_failure(e) ==
    /\ e.outcome.kind = "raise"
    /\ ~uncaught(e.outcome)
    /\ retry_should_consider_failure(e.outcome.what)

\* the retried call is over
retry_finished == retry_pc = "idle" /\ retry_result.kind # "none"

RetryLimitReached == "RetryLimitReached"

\* ------------------------------------------------------------------ C15
\* C15: a retry policy with max_retries = r >= 0 invokes the operation at
\* most r + 1 times per call; a call in which every attempt raised a
\* classified failure has invoked it exactly r + 1 times and ends in
\* RetryLimitReached; and every call that has entered the loop leaves it.
C15_RetryBounded ==
    /\ [](invocations <= max_retries + 1)
    /\ []((retry_finished /\ \A i \in 1..Len(calls) : classified_failure(calls[i])) =>
             /\ invocations = max_retries + 1
             /\ retry_result.kind = "raise"
             /\ retry_result.what = RetryLimitReached)
    /\ (retry_pc = "loop" ~> retry_pc = "idle")

\* three attempts of a policy with max_retries = 2 have failed and the
\* call has ended in RetryLimitReached
C15_Witness ==
    /\ retry_finished
    /\ max_retries = 2
    /\ invocations = 3
    /\ retry_result.what = RetryLimitReached

\* ------------------------------------------------------------------ C16
\* C16: with a backoff configured and max_retries = r, a call whose attempts
\* all raise classified failures sleeps exactly r times before raising
\* RetryLimitReached - once between each pair of consecutive attempts and
\* not after the final attempt.
C16_SleepsBetweenAttempts ==
    (/\ retry_finished
     /\ backoff # NoBackoff
     /\ retry_result.what = RetryLimitReached) =>
        /\ Len(sleeps) = max_retries
        /\ IsCall(trace[Len(trace)])
        /\ \A i \in 1..(Len(trace) - 1) : IsCall(trace[i]) <=> IsSleep(trace[i + 1])

\* ------------------------------------------------------------------ C17
\* C17: when the retry policy exhausts its attempts, the RetryLimitReached
\* it raises carries as its cause the exception raised by the last attempt,
\* not an earlier attempt's exception and not none.
C17_CauseIsLastException ==
    (retry_finished /\ retry_result.what = RetryLimitReached) =>
        /\ invocations >= 1
        /\ calls[invocations].outcome.kind = "raise"
        /\ retry_result.cause = calls[invocations].outcome.what
        /\ retry_result.cause # None

\* the first attempt raised RuntimeError, the second and last ValueError,
\* and RetryLimitReached has ValueError as its cause
C17_Witness ==
    /\ retry_finished
    /\ retry_result = [kind |-> "raise", what |-> RetryLimitReached, cause |-> "ValueError"]
    /\ invocations = 2
    /\ calls[1].outcome.what = "RuntimeError"

\* ------------------------------------------------------------------ C18
\* C18: when an attempt raises an exception the retry policy's classifier
\* rejects, that same exception reaches the caller at once: the invocation
\* is the last thing the call does - no sleep and no further invocation
\* follow it - and the call ends with that exception, not with
\* RetryLimitReached, however many retries remain.
C18_RejectedExceptionPropagates ==
    \A i \in 1..Len(trace) :
        (/\ IsCall(trace[i])
         /\ trace[i].outcome.kind = "raise"
         /\ should_handle = "RuntimeError"
         /\ trace[i].outcome.what # "RuntimeError") =>
            /\ i = Len(trace)
            /\ retry_pc = "idle"
            /\ retry_result = [kind |-> "raise", what |-> trace[i].outcome.what,
                               cause |-> None]

\* the second of three allowed attempts raised ValueError, which a policy
\* handling only RuntimeError rejects: the call ended there
C18_Witness ==
    /\ retry_finished
    /\ should_handle = "RuntimeError"
    /\ max_retries = 2
    /\ invocations = 2
    /\ calls[1].outcome.what = "RuntimeError"
    /\ retry_result = [kind |-> "raise", what |-> "ValueError", cause |-> None]

\* ------------------------------------------------------------------ C19
\* C19: when attempt number i (from 1, i <= max_retries + 1) is the first to
\* succeed, the call returns that attempt's result, the operation has been
\* invoked exactly i times, and with a backoff configured the call has
\* slept delay_fn(1), ..., delay_fn(i - 1) in that order, each sleep between
\* two consecutive attempts (without a backoff it has not slept); the delay
\* function is never asked for an attempt number below 1.
C19_FirstSuccessReturns ==
    /\ \A j \in 1..Len(trace) :
         /\ IsSleep(trace[j]) => trace[j].n >= 1
         /\ (IsCall(trace[j]) /\ trace[j].outcome.kind = "return") =>
               j = Len(trace) /\ retry_finished /\ retry_result.kind = "return"
    /\ (retry_finished /\ retry_result.kind = "return") =>
         LET i == invocations
         IN  /\ i >= 1 /\ i <= max_retries + 1
             /\ retry_result = [kind |-> "return", what |-> calls[i].outcome.what,
                                cause |-> None]
             /\ \A j \in 1..(i - 1) : calls[j].outcome.kind = "raise"
             /\ IF backoff = NoBackoff
                THEN trace = calls
                ELSE /\ Len(trace) = 2 * i - 1
                     /\ \A j \in 1..(i - 1) :
                          /\ IsCall(trace[2 * j - 1])
                          /\ trace[2 * j] =
                               SleepEvent(j, min(backoff.min_delay * pow(backoff.factor, j - 1),
                                                 backoff.max_delay))

\* the third attempt of a policy with an exponential backoff succeeded:
\* three invocations, with sleeps of 1 and 2 seconds between them
C19_Witness ==
    /\ retry_finished
    /\ retry_result = [kind |-> "return", what |-> "test", cause |-> None]
    /\ backoff.factor = 2
    /\ invocations = 3
    /\ Len(sleeps) = 2
    /\ sleeps[1].delay = 1 /\ sleeps[2].delay = 2

\* ------------------------------------------------- composition (reading)
\* P1(P2(...Pn(func)...)), written out by hand from the list as given
RECURSIVE Nested(_, _)
Nested(ps, func) ==
    IF ps = <<>> THEN func ELSE policy_call(Head(ps), Nested(Tail(ps), func))

\* the step is f's own run, with outcome o
f_ran(o) == net_pc = "down" /\ callee = f /\ trace' = Append(trace, CallEvent(o))

\* C20: a SafetyNet over a duplicate-free list (P1, ..., Pn), applied to f,
\* is P1(P2(...Pn(f)...)): the decorated()s that are running are always the
\* first policies of the list, outermost first; f runs only below all n of
\* them and its raw outcome is what the last policy receives; what the
\* caller gets is what the first policy hands up; and over the empty list
\* the decorated operation is f, whose outcome is the caller's unchanged.
C20_SafetyNetIsNesting ==
    [][ /\ SafetyNet(policies).raised = None =>
             /\ wrapped = Nested(policies, f)
             /\ frames' = SubSeq(policies, 1, Len(frames'))
             /\ \A o \in Outcomes : f_ran(o) =>
                  /\ frames = policies
                  /\ carried' = Raw(o)
                  /\ (policies = <<>> => net_pc' = "up" /\ frames' = <<>>)
             /\ (net_pc = "up" /\ net_pc' = "idle") =>
                  /\ frames = <<>>
                  /\ net_result' = carried
                  /\ (policies = <<>> =>
                        /\ Len(trace) = 1
                        /\ net_result' = Raw(trace[1].outcome))
        /\ policies = <<>> => wrapped = f
      ]_vars

\* SafetyNet((retry, breaker)) over an f that raises RuntimeError: the
\* breaker, innermost, counts the raw error and opens, the retry policy
\* then meets the breaker's ProtectedCallError, and the caller gets
\* RetryLimitReached caused by it after a single run of f
C20_Witness ==
    /\ policies = <<"retry", "breaker">>
    /\ wrapped = <<"retry", "breaker">>
    /\ net_pc = "idle"
    /\ net_result = [kind |-> "raise", what |-> RetryLimitReached,
                     cause |-> "ProtectedCallError"]
    /\ calls = <<CallEvent([kind |-> "raise", what |-> "RuntimeError"])>>
    /\ status = OPEN

\* ------------------------------------------- breaker around retry (reading)
\* SafetyNet((breaker, retry)): the breaker's decorated() is the outermost
breaker_outer == policies = <<"breaker", "retry">>

\* the breaker's decorated() is about to do its bookkeeping for the outer call
breaker_bookkeeps == net_pc = "up" /\ frames = <<"breaker">>

\* some attempt of the composed call in progress returned
recovered == \E i \in 1..Len(calls) : calls[i].outcome.kind = "return"

\* the bookkeeping of this step has changed the status and ended with the
\* exception the observer raised when it was told
observer_raised == status' # status /\ carried' = Raised("ObserverError")

\* C21 as stated: with the breaker outside the retry policy the breaker's
\* state changes only in its own guard check and in one bookkeeping step per
\* outer call; that step sees a return if an inner attempt returned and
\* RetryLimitReached otherwise; while CLOSED it appends one entry to the
\* window - true for the return, which keeps the breaker CLOSED, false for
\* RetryLimitReached.
C21_OneOutcomePerOuterCall ==
    [][breaker_outer =>
         /\ (status_obj' # status_obj \/ storage' # storage) =>
               (net_pc = "down" /\ frames = <<>>) \/ breaker_bookkeeps
         /\ (breaker_bookkeeps /\ frames' = <<>>) =>
               /\ net_pc' = "up"
               /\ carried' = carried \/ observer_raised
               /\ recovered <=> carried.kind = "return"
               /\ ~recovered =>
                     /\ carried.what = RetryLimitReached
                     /\ invocations = max_retries + 1
               /\ Len(execution_log'.items) <= Len(items) + 1
               /\ status = CLOSED =>
                     /\ execution_log'.items =
                          LastN(Append(items, recovered), failure_limit.denominator)
                     /\ recovered => status' = CLOSED]_vars

\* C21, amended: the same, the entry for RetryLimitReached being false only
\* if the breaker's classifier counts RetryLimitReached as a failure; a
\* classifier that rejects it makes the breaker record a success. And an
\* exception of the operation that is no Exception passes through both
\* policies: the breaker records nothing for that call.
C21_OneOutcomePerOuterCallAsClassified ==
    [][breaker_outer =>
         /\ (status_obj' # status_obj \/ storage' # storage) =>
               (net_pc = "down" /\ frames = <<>>) \/ breaker_bookkeeps
         /\ (breaker_bookkeeps /\ frames' = <<>>) =>
               /\ net_pc' = "up"
               /\ carried' = carried \/ observer_raised
               /\ recovered <=> carried.kind = "return"
               /\ IF uncaught(carried)
                  THEN /\ carried = Raw(calls[Len(calls)].outcome)
                       /\ status_obj' = status_obj
                       /\ storage' = storage
                  ELSE /\ ~recovered =>
                             /\ carried.what = RetryLimitReached
                             /\ invocations = max_retries + 1
                       /\ Len(execution_log'.items) <= Len(items) + 1
                       /\ status = CLOSED =>
                             /\ execution_log'.items =
                                  LastN(Append(items,
                                               recovered \/ breaker_should_handle # "any"),
                                        failure_limit.denominator)
                             /\ recovered => status' = CLOSED]_vars

\* the operation failed twice and then returned under a breaker with
\* failure_limit 1/1: the breaker recorded one success and is still CLOSED;
\* (test_should_evaluate_retry_first)
C21_Witness ==
    /\ breaker_outer
    /\ net_pc = "idle"
    /\ failure_limit = Fraction(1, 1)
    /\ invocations = 3
    /\ calls[1].outcome.kind = "raise" /\ calls[2].outcome.kind = "raise"
    /\ net_result = Raw([kind |-> "return", what |-> "response"])
    /\ items = <<TRUE>>
    /\ status = CLOSED

\* ------------------------------------------- retry around breaker (reading)
\* SafetyNet((retry, breaker)): the retry policy's decorated() is the outermost
retry_outer == policies = <<"retry", "breaker">>

\* a composed call has finished
net_finished == net_pc = "idle" /\ net_result.kind # "none"

\* every run of the operation in the last composed call raised an exception
\* that the breaker's classifier counts
always_failed ==
    \A i \in 1..Len(calls) :
         /\ calls[i].outcome.kind = "raise"
         /\ ~uncaught(calls[i].outcome)
         /\ should_consider_failure(calls[i].outcome.what)

\* the breaker that the last composed call opened is still in its cooldown,
\* and the call saw no other transition: no attempt found the cooldown elapsed
cooldown_not_elapsed ==
    /\ status = OPEN
    /\ now < cooldown_expiry
    /\ Len(notifications) = 1

\* an attempt of the last composed call found the cooldown over: the guard
\* check of resilient_circuit made the breaker HALF_OPEN
found_elapsed ==
    \E i \in 1..Len(notifications) : notifications[i] = Notified(OPEN, HALF_OPEN)

record_matches_status ==
    /\ storage.state = status
    /\ storage.open_until = IF status = OPEN THEN cooldown_expiry ELSE 0

\* C23 (resilient_circuit, storage that does not fail): after every step
\* that replaces or updates the live status object - a transition made by
\* the guard check, by the bookkeeping or by an assignment - and after the
\* bookkeeping of every admitted call, the stored record has the state label
\* of the in-memory status, and an open_until equal to the cooldown expiry
\* when that status is OPEN and 0 when it is CLOSED or HALF_OPEN.
C23_RecordFollowsStatus ==
    [][(/\ package = "resilient_circuit"
        /\ BookkeepStep \/ status_obj' # status_obj) => record_matches_status']_vars

\* --------------------------------------------- two policies (reading)
\* the step constructs the second policy
Constructed == cb2 = NotConstructed /\ cb2' # NotConstructed

\* C24 (resilient_circuit): a policy constructed on the storage and key of
\* an existing policy, the storage working and holding what that policy
\* last saved, starts in the saved status - CLOSED when nothing was saved -
\* with an empty window; if the saved status is OPEN its expiry is the
\* saved open_until, not its construction time plus cooldown, and an OPEN
\* policy rejects a call exactly when the call is made before its expiry.
C24_StartsFromSavedRecord ==
    [][/\ (Constructed /\ storage_up /\ storage # UnknownLabel) =>
            /\ cb2'.status_type = IF storage = NoState THEN CLOSED ELSE storage.state
            /\ cb2'.execution_log.items = <<>>
            /\ cb2'.status_type = OPEN =>
                  cb2'.open_until_timestamp = storage.open_until
       /\ (Call /\ status = OPEN) =>
            (result' = RaisedBy("ProtectedCallError") <=>
                now < status_obj.open_until_timestamp)]_vars

\* a policy constructed while the record said OPEN is called at the saved
\* expiry instant, later than its construction: the call is admitted, and
\* the policy that had opened the circuit still holds its window
C24_Witness ==
    /\ pc = "admitted"
    /\ cooldown = 1
    /\ notifications = << Notified(OPEN, HALF_OPEN) >>
    /\ items = <<>>
    /\ cb2 # NotConstructed
    /\ cb2.status_type = OPEN
    /\ cb2.execution_log.items = <<FALSE>>
    /\ cb2.open_until_timestamp = now
    /\ storage.state = HALF_OPEN

\* C25 (resilient_circuit): when one policy has opened the circuit and
\* saved it, every other policy on the same storage and key - constructed
\* before the circuit opened or after - sees OPEN: a call made on it before
\* the cooldown expires is rejected without invoking the operation.
C25_EveryPolicySeesOpen ==
    [][(/\ Call
        /\ cb2 # NotConstructed
        /\ cb2.status_type = OPEN
        /\ storage_up
        /\ storage.state = OPEN
        /\ storage.open_until = cb2.open_until_timestamp
        /\ now < cb2.open_until_timestamp) =>
           /\ pc' = "idle"
           /\ result' = RaisedBy("ProtectedCallError")]_vars

\* C26 (resilient_circuit): a failing storage never fails a call. A policy
\* constructed while get_state raises, or on a record whose label is no
\* CircuitStatus, starts CLOSED with an empty window and no failures. A
\* call whose set_state raises leaves the stored record as it was, still
\* updates the window and makes the transition in memory (shown for a
\* CLOSED policy, whose rule is C1's), and gives the caller the operation's
\* own result or exception - or the observer's exception, if a transition
\* was notified and the observer raised.
C26_StorageFailuresAreSwallowed ==
    [][/\ (Constructed /\ (~storage_up \/ storage = UnknownLabel)) =>
            /\ cb2'.status_type = CLOSED
            /\ cb2'.execution_log.items = <<>>
            /\ cb2'.failure_count = 0
       /\ (~storage_up /\ pc' # pc) =>
            /\ storage' = storage
            /\ result' \in {NoOutcome, outcome, RaisedBy("ProtectedCallError"),
                            RaisedBy("ObserverError")}
            /\ result' = RaisedBy("ObserverError") => notifications' # notifications
            /\ result' = RaisedBy("ProtectedCallError") =>
                  Call /\ status = OPEN /\ now < cooldown_expiry
       /\ (~storage_up /\ BookkeepStep) =>
            /\ result' # RaisedBy("ObserverError") => result' = outcome
            /\ (status = CLOSED /\ RecordStep) =>
                 LET after == LastN(Append(items, ~counted_failure),
                                    failure_limit.denominator)
                 IN  /\ execution_log'.items = after
                     /\ status' = OPEN <=>
                          /\ counted_failure
                          /\ Len(after) = failure_limit.denominator
                          /\ Count(after, FALSE) * failure_limit.denominator
                               >= failure_limit.numerator * Len(after)
                     /\ status' # OPEN => status' = CLOSED]_vars

\* the storage was down from the start: a failure opened the circuit in
\* memory, the caller got the operation's exception, nothing was stored
C26_Witness ==
    /\ ~storage_up
    /\ pc = "idle"
    /\ status = OPEN
    /\ items = <<FALSE>>
    /\ notifications = << Notified(CLOSED, OPEN) >>
    /\ result = RaisedBy("RuntimeError")
    /\ storage = NoState

\* ------------------------------------------------- the buffer on its own
\* BinaryCircularBuffer(size) for a size of 1 or more, then any items added
InitBuffer ==
    /\ \E size \in 1..MaxSize : buffer = BinaryCircularBuffer(size)
    /\ given = <<>>
    /\ delay_fn = NoBackoff
    /\ jitter = NoJitter
    /\ returned = NoReturn
    /\ package = "resilient_circuit"
    /\ cooldown = 0
    /\ failure_limit = DEFAULT_THRESHOLD
    /\ success_limit = DEFAULT_THRESHOLD
    /\ breaker_should_handle = "any"
    /\ now = 1
    /\ storage = NoState
    /\ status_obj = rc_StatusClosed(0)
    /\ notifications = <<>>
    /\ pc = "idle"
    /\ outcome = NoOutcome
    /\ result = NoOutcome
    /\ probes = 0
    /\ RetryWithBackoffPolicy(3, NoBackoff, "any")
    /\ NoSafetyNet
    /\ NoSecondPolicy
    /\ NoTwins

\* buffer.add(item)
Add ==
    /\ Len(given) < MaxAdds
    /\ \E item \in BOOLEAN :
         /\ buffer' = buffer_add(buffer, item)
         /\ given' = Append(given, item)
    /\ UNCHANGED <<delay_fn, jitter, returned>>
    /\ UNCHANGED twin_vars
    /\ UNCHANGED <<breaker_vars, retry_vars, net_vars, shared_vars>>

NextBuffer == Add

SpecBuffer == InitBuffer /\ [][NextBuffer]_vars

\* C27: a buffer of capacity N that was given M items holds the last
\* min(M, N) of them in the order they were given, so it never holds more
\* than N, it is full exactly when it holds N (which is when M >= N), and a
\* full buffer is full after every further add.
C27_KeepsLastItems ==
    /\ [](LET M == Len(given)
              N == buffer.size
          IN  /\ Len(buffer.items) = min(M, N)
              /\ \A i \in 1..Len(buffer.items) :
                   buffer.items[i] = given[M - Len(buffer.items) + i]
              /\ Len(buffer.items) <= N
              /\ is_full(buffer) <=> Len(buffer.items) = N
              /\ is_full(buffer) <=> M >= N)
    /\ [][is_full(buffer) => is_full(buffer')]_vars

\* more items were given than the buffer holds, and the first item given,
\* now dropped, differs from the last
C27_Witness ==
    /\ buffer.size >= 2
    /\ Len(given) > buffer.size
    /\ given[1] # given[Len(given)]
    /\ buffer.items = SubSeq(given, Len(given) - buffer.size + 1, Len(given))
    /\ is_full(buffer)

\* C28: in a buffer that holds at least one item the successes and the
\* failures add up to the number of items held, and success_rate and
\* failure_rate, the two counts over that number as exact fractions, add up
\* to one.
C28_CountsAndRatesAddUp ==
    Len(buffer.items) >= 1 =>
        /\ success_count(buffer) + failure_count(buffer) = Len(buffer.items)
        /\ success_rate(buffer) = Fraction(success_count(buffer), Len(buffer.items))
        /\ failure_rate(buffer) = Fraction(failure_count(buffer), Len(buffer.items))
        /\ Fraction_add(success_rate(buffer), failure_rate(buffer)) = Fraction(1, 1)

\* a buffer that is not yet full and holds both a success and a failure
C28_Witness ==
    /\ ~is_full(buffer)
    /\ success_count(buffer) >= 1
    /\ failure_count(buffer) >= 1
    /\ success_rate(buffer) = Fraction(1, 2)

\* -------------------------------------------------- a delay on its own
Factors == {1, 2}
Jitters == {NoJitter} \cup {Fraction(k, 2) : k \in -1..3}
Attempts == 0..MaxAttempt \cup (DBL_MAX_EXP - 1)..(DBL_MAX_EXP + 1)

\* the object could not be built: __post_init__ raised
ConstructionFailed == [raised |-> "ValueError"]

\* ExponentialDelay(min_delay, max_delay, factor, jitter) or FixedDelay(delay)
\* over whole seconds, a call of for_attempt yet to come
InitBackoff ==
    /\ \E j \in Jitters, lo \in 0..MaxDelay, hi \in 0..MaxDelay, fac \in Factors :
         /\ jitter = j
         /\ delay_fn = IF post_init(j) = None
                       THEN IF j = NoJitter /\ lo = hi /\ fac = 1
                            THEN FixedDelay(lo)
                            ELSE ExponentialDelay(lo, hi, fac)
                       ELSE ConstructionFailed
    /\ returned = NoReturn
    /\ buffer = BinaryCircularBuffer(1)
    /\ given = <<>>
    /\ package = "highway_circutbreaker"
    /\ cooldown = 0
    /\ failure_limit = DEFAULT_THRESHOLD
    /\ success_limit = DEFAULT_THRESHOLD
    /\ breaker_should_handle = "any"
    /\ now = 1
    /\ storage = NoState
    /\ status_obj = hw_StatusClosed
    /\ notifications = <<>>
    /\ pc = "idle"
    /\ outcome = NoOutcome
    /\ result = NoOutcome
    /\ probes = 0
    /\ RetryWithBackoffPolicy(3, NoBackoff, "any")
    /\ NoSafetyNet
    /\ NoSecondPolicy
    /\ NoTwins

\* delay_fn.for_attempt(n); u is what random.uniform draws, if it is asked
ForAttempt ==
    /\ delay_fn # ConstructionFailed
    /\ \E n \in Attempts, u \in -UniformSteps..UniformSteps :
         /\ jitter = NoJitter => u = 0
         /\ returned' =
              IF jitter = NoJitter
              THEN LET got == for_attempt(delay_fn, n)
                   IN  [called |-> TRUE, attempt |-> n, u |-> u,
                        raised |-> got.raised, delay |-> Fraction(got.delay, 1)]
              ELSE LET got == for_attempt_with_jitter(delay_fn, jitter, n, u)
                   IN  [called |-> TRUE, attempt |-> n, u |-> u,
                        raised |-> got.raised, delay |-> got.delay]
    /\ UNCHANGED <<buffer, given, delay_fn, jitter>>
    /\ UNCHANGED twin_vars
    /\ UNCHANGED <<breaker_vars, retry_vars, net_vars, shared_vars>>

NextBackoff == ForAttempt

SpecBackoff == InitBackoff /\ [][NextBackoff]_vars

\* min_delay * factor^(attempt - 1) for the call that returned, as far as
\* ceiling
asked_delay(ceiling) ==
    scaled(delay_fn.min_delay, delay_fn.factor, returned.attempt - 1, ceiling)

\* C29: a delay without jitter asked for an attempt of 1 or more returns
\* min(min_delay * factor^(attempt - 1), max_delay): at most max_delay, no
\* less than for any earlier attempt when the factor is 1 or more, and d
\* whatever the attempt for FixedDelay(d); asked for an attempt below 1 it
\* raises.
C29_DelayWithoutJitter ==
    (returned.called /\ jitter = NoJitter) =>
        IF returned.attempt >= 1
        THEN /\ returned.raised = None
             /\ returned.delay =
                  Fraction(min(asked_delay(delay_fn.max_delay), delay_fn.max_delay), 1)
             /\ Fraction_ge(Fraction(delay_fn.max_delay, 1), returned.delay)
             /\ delay_fn.factor >= 1 =>
                  \A m \in Attempts :
                      (1 <= m /\ m <= returned.attempt) =>
                          /\ for_attempt(delay_fn, m).raised = None
                          /\ Fraction_ge(returned.delay,
                                         Fraction(for_attempt(delay_fn, m).delay, 1))
             /\ delay_fn = FixedDelay(delay_fn.min_delay) =>
                  returned.delay = Fraction(delay_fn.min_delay, 1)
        ELSE returned.raised # None

\* the jitter given is a number below 0 or above 1
jitter_out_of_range ==
    jitter # NoJitter /\ (jitter.numerator < 0 \/ jitter.numerator > jitter.denominator)

\* a delay with jitter returned a value
jittered_return ==
    /\ delay_fn # ConstructionFailed
    /\ jitter # NoJitter
    /\ returned.called
    /\ returned.raised = None

\* d * (1 - j) and d * (1 + j) for the call that returned
jitter_low == Fraction(asked_delay(jitter_ceiling(delay_fn, jitter))
                         * (jitter.denominator - jitter.numerator),
                       jitter.denominator)
jitter_high == Fraction(asked_delay(jitter_ceiling(delay_fn, jitter))
                          * (jitter.denominator + jitter.numerator),
                        jitter.denominator)

\* C30: a jitter outside [0, 1] is refused at construction, and a
\* delay with jitter j returns only values from d * (1 - j) to
\* min(d * (1 + j), max_delay), d being min_delay * factor^(attempt - 1):
\* never a negative value and never one above max_delay.
C30_JitterRange ==
    /\ jitter_out_of_range => delay_fn = ConstructionFailed
    /\ jittered_return =>
         /\ returned.delay # nan
         /\ Fraction_ge(returned.delay, jitter_low)
         /\ Fraction_ge(Fraction_min(jitter_high, Fraction(delay_fn.max_delay, 1)),
                        returned.delay)
         /\ Fraction_ge(returned.delay, Fraction(0, 1))
         /\ Fraction_ge(Fraction(delay_fn.max_delay, 1), returned.delay)

\* ------------------------------------------------------------------ C31
\* the capacity of a HALF_OPEN window under the configured thresholds
half_open_capacity ==
    IF success_limit # DEFAULT_THRESHOLD THEN success_limit.denominator
    ELSE failure_limit.denominator

\* C31: the HALF_OPEN window has the capacity of success_limit's denominator
\* when success_limit is not 1/1 and of failure_limit's denominator
\* otherwise; a call made while HALF_OPEN is admitted; the call whose outcome
\* fills the window moves the breaker to CLOSED or OPEN and no call before
\* it moves it; so a HALF_OPEN breaker always holds fewer outcomes than its
\* window's capacity.
C31_HalfOpenWindow ==
    /\ [](status = HALF_OPEN =>
            /\ execution_log.size = half_open_capacity
            /\ Len(items) < half_open_capacity)
    /\ [][status = HALF_OPEN =>
            /\ pc = "idle" => result' # RaisedBy("ProtectedCallError")
            /\ RecordStep =>
                 LET filled == buffer_add(execution_log, ~counted_failure)
                 IN  IF is_full(filled)
                     THEN status' \in {CLOSED, OPEN}
                     ELSE status' = HALF_OPEN /\ execution_log' = filled]_vars

\* a HALF_OPEN breaker at rest after one of the two trial calls its
\* success_limit asks for, under a failure_limit with a window of one
C31_Witness ==
    /\ status = HALF_OPEN
    /\ pc = "idle"
    /\ success_limit.denominator = 2
    /\ failure_limit.denominator = 1
    /\ Len(items) = 1
    /\ result.kind \in {"return", "raise"}

\* ------------------------------------------------------------------ C32
\* the live status object was replaced by one of another status in this step
Transition(from, to) == status = from /\ status' = to /\ status_obj' # status_obj

\* the window the status object had once the outcome of the call was added
window_after_mark ==
    IF BookkeepStep /\ ~(status = OPEN /\ counted_failure)
    THEN buffer_add(execution_log, ~counted_failure)
    ELSE execution_log

\* C32: the OPEN state entered from CLOSED exposes the window the CLOSED
\* state had, contents kept, while the states entered by OPEN -> HALF_OPEN,
\* HALF_OPEN -> CLOSED and HALF_OPEN -> OPEN start with an empty window.
C32_WindowOnTransition ==
    [][/\ Transition(CLOSED, OPEN) => execution_log' = window_after_mark
       /\ Transition(OPEN, HALF_OPEN) => execution_log'.items = <<>>
       /\ Transition(HALF_OPEN, CLOSED) => execution_log'.items = <<>>
       /\ Transition(HALF_OPEN, OPEN) => execution_log'.items = <<>>]_vars

\* ------------------------------------------------------------------ C33
\* a step made on the live policy with the caller outside a call: a guard
\* check, or an assignment of the status
CallStep == pc = "idle" /\ cb2' = cb2 /\ storage_up' = storage_up /\ now' = now

\* C33 (resilient_circuit): the failure counter starts from the value loaded
\* at construction; a recorded success, a non-counted exception included,
\* sets it to 0; a counted failure recorded in CLOSED or HALF_OPEN adds 1;
\* entering CLOSED or HALF_OPEN sets it to 0; entering OPEN and staying OPEN
\* leave it as it is; and what is written to the storage is that counter.
C33_FailureCounter ==
    [][/\ Constructed =>
            cb2'.failure_count = IF storage_up /\ storage.state \in CircuitStatus
                                 THEN storage.failure_count ELSE 0
       /\ (RecordStep /\ status \in {CLOSED, HALF_OPEN}) =>
            status_obj'.failure_count =
                IF ~counted_failure THEN 0
                ELSE IF status' # status /\ status' \in {CLOSED, HALF_OPEN} THEN 0
                ELSE status_obj.failure_count + 1
       /\ (status = OPEN /\ (BookkeepStep \/ CallStep)) =>
            status_obj'.failure_count =
                IF status' = OPEN THEN status_obj.failure_count ELSE 0
       /\ (storage' # storage /\ storage' # UnknownLabel) =>
            storage'.failure_count = status_obj'.failure_count]_vars

\* two counted failures in a row opened the circuit, and the record written
\* on the way carries the count of two
C33_Witness ==
    /\ status = OPEN
    /\ status_obj.failure_count = 2
    /\ storage.state = OPEN
    /\ storage.failure_count = 2
    /\ items = <<FALSE, FALSE>>

\* ------------------------------------------- wrapped calls and nothing else
\* sequential use: calls through the wrapped operation and the passing of
\* time, the status never assigned by the caller
NextCalls == Call \/ Invoke \/ Bookkeep \/ Tick

SpecCalls == Init /\ [][NextCalls]_vars

\* ------------------------------------------------------------------ C35
\* the transitions a wrapped call can cause
CallTransitions ==
    {<<CLOSED, OPEN>>, <<OPEN, HALF_OPEN>>, <<HALF_OPEN, CLOSED>>, <<HALF_OPEN, OPEN>>}

\* the observer's invocations made in this step, as pairs (previous, new):
\* the guard check starts a new list, the bookkeeping adds to it
notified_now ==
    LET first == IF BookkeepStep THEN Len(notifications) + 1
                 ELSE IF pc = "idle" /\ now' = now THEN 1
                 ELSE Len(notifications') + 1
    IN  {<<notifications'[i][2], notifications'[i][3]>> :
            i \in first..Len(notifications')}

\* C35: a step of a wrapped call changes the status only by CLOSED -> OPEN,
\* OPEN -> HALF_OPEN, HALF_OPEN -> CLOSED or HALF_OPEN -> OPEN, and the
\* observer is notified of exactly that change: never with previous = new,
\* never of CLOSED -> HALF_OPEN and never of OPEN -> CLOSED.
C35_CallTransitions ==
    [][/\ status' # status => <<status, status'>> \in CallTransitions
       /\ notified_now \subseteq CallTransitions
       /\ notified_now = IF status' # status THEN {<<status, status'>>} ELSE {}]_vars

\* a call that failed its HALF_OPEN trial has just re-opened the circuit
\* and the observer was told so
C35_Witness ==
    /\ status = OPEN
    /\ pc = "idle"
    /\ notifications # <<>>
    /\ notifications[Len(notifications)] = Notified(HALF_OPEN, OPEN)
    /\ result = RaisedBy("RuntimeError")

\* ------------------------------------------------------------------ C37
\* C37: every entry into OPEN, from CLOSED or from HALF_OPEN, starts a
\* cooldown of full length at the instant of the entry, and as long as that
\* instant plus the cooldown has not come a call is rejected without the
\* operation being invoked, whenever the circuit was opened before.
C37_EntryStartsFullCooldown ==
    [][/\ (status # OPEN /\ status' = OPEN) => cooldown_expiry' = now + cooldown
       /\ (status = OPEN /\ status' = OPEN) => cooldown_expiry' = cooldown_expiry
       /\ (status = OPEN /\ pc = "idle" /\ now' = now /\ now < cooldown_expiry) =>
            /\ pc' = "idle"
            /\ result' = RaisedBy("ProtectedCallError")
            /\ status' = OPEN]_vars

\* the circuit was opened, a trial call after the cooldown failed and has
\* just re-opened it, at a later instant, with a full cooldown ahead
C37_Witness ==
    /\ status = OPEN
    /\ pc = "idle"
    /\ cooldown >= 1
    /\ now >= 2
    /\ cooldown_expiry = now + cooldown
    /\ notifications # <<>>
    /\ notifications[Len(notifications)] = Notified(HALF_OPEN, OPEN)

\* ------------------------------------------------------------------ C38
\* C38 (resilient_circuit): the operation is invoked only while the status is
\* CLOSED or HALF_OPEN, and so an outcome is never reported to an OPEN
\* status object.
C38_NeverInvokedWhileOpen ==
    (package = "resilient_circuit" /\ pc \in {"admitted", "returned"}) =>
        status \in {CLOSED, HALF_OPEN}

\* a call made at the expiry of the cooldown was admitted, as HALF_OPEN, and
\* its operation has run
C38_Witness ==
    /\ package = "resilient_circuit"
    /\ pc = "returned"
    /\ status = HALF_OPEN
    /\ notifications = <<Notified(OPEN, HALF_OPEN)>>

\* ------------------------------------------------------------------ C39
\* C39: every window has a capacity of one or more; the guard check reads
\* no rate; what a mark does with the outcome of a call reads a rate only from
\* a window that is_full, which therefore holds at least one outcome, so that
\* the rate is a fraction; and no call ends with the ZeroDivisionError of an
\* empty window.
C39_NoRateOfEmptyWindow ==
    [][/\ execution_log.size >= 1
       /\ execution_log'.size >= 1
       /\ result'.what # "ZeroDivisionError"
       /\ \A observer_raises \in BOOLEAN :
            /\ (pc = "idle" /\ pc' # pc) =>
                  validate_execution(World, now, observer_raises).rates = <<>>
            /\ BookkeepStep =>
                  LET w == bookkeeping(World, outcome, now, observer_raises)
                  IN  /\ w.error # "ZeroDivisionError"
                      /\ \A i \in 1..Len(w.rates) :
                           /\ is_full(w.rates[i])
                           /\ Len(w.rates[i].items) >= 1
                           /\ success_rate(w.rates[i]) # ZeroDivisionError
                           /\ failure_rate(w.rates[i]) # ZeroDivisionError]_vars

\* the third outcome of a HALF_OPEN trial, a counted failure, has filled the
\* window of three; the success rate read from it, 2/3, has closed the circuit
C39_Witness ==
    /\ pc = "idle"
    /\ status = CLOSED
    /\ success_limit = Fraction(2, 3)
    /\ notifications = << Notified(HALF_OPEN, CLOSED) >>
    /\ result = RaisedBy("RuntimeError")

\* ------------------------------------------------------------------ C36
\* something keeps happening as long as something can: a call that was
\* entered runs to its end, a new call arrives, or the clock advances as
\* far as the model lets it
InitLive ==
    /\ package \in Packages
    /\ cooldown \in {0, MaxCooldown}
    /\ failure_limit \in {Fraction(1, 1), Fraction(1, 2)}
    /\ success_limit \in {DEFAULT_THRESHOLD, Fraction(1, 2)}
    /\ breaker_should_handle = "RuntimeError"
    /\ now = 1
    /\ status_obj = IF package = "resilient_circuit" THEN rc_StatusClosed(0)
                    ELSE hw_StatusClosed
    /\ storage = NoState
    /\ notifications = <<>>
    /\ pc = "idle"
    /\ outcome = NoOutcome
    /\ result = NoOutcome
    /\ probes = 0
    /\ RetryWithBackoffPolicy(3, NoBackoff, "any")
    /\ NoSafetyNet
    /\ NoSecondPolicy
    /\ NoUnits
    /\ NoTwins

SpecLive == InitLive /\ [][NextCalls]_vars /\ WF_vars(NextCalls)

\* the clock reaches the end of the cooldown and the OPEN status object can
\* take one more call
recovery_in_reach == cooldown_expiry <= MaxTime /\ probes < MaxProbes

\* the call in progress has not succeeded: it raised an exception that the
\* classifier counts, or one that is no Exception and is not reported
call_failed == counted_failure \/ uncaught(outcome)

\* C36: a breaker that is OPEN, with a cooldown that ends within the time the
\* clock covers, becomes CLOSED in the end unless a call fails on the way
\* (if every call from then on succeeds, it becomes CLOSED); and a CLOSED
\* breaker leaves CLOSED only by the bookkeeping of a call that failed.
C36_Recovery ==
    /\ (status = OPEN /\ recovery_in_reach) ~> (status = CLOSED \/ call_failed)
    /\ [][(status = CLOSED /\ status' # CLOSED) => (BookkeepStep /\ counted_failure)]_vars

\* the last of the trial calls has succeeded and closed the circuit
C36_Witness ==
    /\ status = CLOSED
    /\ pc = "idle"
    /\ result.kind = "return"
    /\ notifications # <<>>
    /\ notifications[Len(notifications)] = Notified(HALF_OPEN, CLOSED)

\* ------------------------------------- two threads through one policy
\* Two threads call the same wrapped operation through one policy object
\* with nothing serialising them. The interpreter can switch threads
\* between any two accesses to what they share: the policy's _status, a
\* status object's failure_count, a buffer's _items, the clock, the
\* storage and the observer. A step of a thread is one such access with the
\* computation on the thread's own locals that leads to the next one; pc
\* names the access the thread makes next. Thread 1 makes one call, at
\* any moment; thread 2 makes call after call.
\*   idle                      outside decorated(), a call to make
\*   done                      outside decorated(), no call left
\*   validate                  StatusOpen.validate_execution reads the clock
\*   set_old .. set_store      the setter of policy.status, up to the
\*                             assignment of self._status
\*   notify                    the setter calls the observer
\*   save_state .. save_set    _save_state: four reads of self._status,
\*                             then storage.set_state
\*   admitted                  the guard check has returned, func is next
\*   returned                  func is over, mark_failure / mark_success
\*                             is next
\*   count_write               self.failure_count += 1, or = 0: the write
\*   add_append .. add_store   GenericCircularBuffer.add
\*   full_len .. rate_len      is_full and the rate it is followed by
Threads == {1, 2}

\* thread i makes a single call
once(i) == i = 1

\* the threads inside decorated()
busy(ts) == {i \in Threads : ts[i].pc \notin {"idle", "done"}}

\* the calls in progress after a step have run alongside one another when
\* both threads are inside decorated(), or when they were and one still is
overlap_after(ts) ==
    \/ busy(ts) = Threads
    \/ overlapped /\ busy(ts) # {}

\* the status object thread th holds, and its window: the live ones, or
\* the thread's own when another thread has replaced them since
held_status(th) == IF th.held.ref = "live" THEN status_obj ELSE th.held.st
held_log(th) ==
    IF th.held.log = "live" THEN status_obj.execution_log
    ELSE th.held.st.execution_log

\* the operation of thread th raised an exception the classifier counts
failed(th) ==
    th.outcome.kind = "raise" /\ should_consider_failure(th.outcome.what)

\* self._status is assigned by another thread: a thread that holds the
\* status object that was live until now keeps it as it is at this instant.
\* shared: the new status object is a StatusOpen built from a status
\* object whose window is the live one, so the window stays the live one.
\* Of a status object that is no longer the live one a thread reads the
\* class, the window and, in validate_execution, the end of the cooldown;
\* the failure_count it writes there is read by nobody.
left_behind(h, shared, validating) ==
    IF h.ref = "none" THEN h
    ELSE LET keeps == h.log = "live" /\ shared
             base == IF h.ref = "live" THEN status_obj ELSE h.st
         IN  [ref |-> "stale",
              st |-> [status_type |-> base.status_type,
                      execution_log |->
                          IF keeps THEN NoLog
                          ELSE IF h.log = "live" THEN status_obj.execution_log
                          ELSE h.st.execution_log,
                      failure_count |-> 0,
                      open_until_timestamp |->
                          IF validating THEN base.open_until_timestamp ELSE 0,
                      transitioned_at |->
                          IF validating THEN base.transitioned_at ELSE 0],
              log |-> IF keeps THEN "live" ELSE "own"]

\* what a step of thread i leaves behind: the live status object, the
\* stored record, the result of the last call that ended, the thread's
\* own locals, and the observer's invocation the step itself makes, empty
\* for a step that makes none; swap tells whether self._status was
\* assigned ("shared": with the window kept, "fresh": with another)
Step(i) ==
    [st |-> status_obj, storage |-> storage, notifications |-> <<>>,
     result |-> result, probes |-> probes, th |-> threads[i], swap |-> "none"]

Commit(i, e) ==
    LET after(k) ==
            IF k = i
            THEN IF e.th.pc = "done" /\ ~once(i) THEN NoThread ELSE e.th
            ELSE IF e.swap = "none" THEN threads[k]
            ELSE [threads[k] EXCEPT !.held =
                    left_behind(@, e.swap = "shared", threads[k].pc = "validate")]
        ts == <<after(1), after(2)>>
    IN  /\ status_obj' = e.st
        /\ storage' = e.storage
        /\ notifications' = e.notifications
        /\ result' = e.result
        /\ probes' = e.probes
        /\ threads' = ts
        /\ overlapped' = overlap_after(ts)
        /\ UNCHANGED <<config, now, pc, outcome, sibling, late,
                       retry_vars, net_vars, shared_vars>>
        /\ UNCHANGED unit_vars

\* the thread goes on to its next access
goto(e, next) == [e EXCEPT !.th.pc = next]

\* self.failure_count = v, self._items = v on the status object held
write_count(e, v) ==
    IF e.th.held.ref = "live" THEN [e EXCEPT !.st.failure_count = v]
    ELSE e

write_items(e, v) ==
    IF e.th.held.log = "live" THEN [e EXCEPT !.st.execution_log.items = v]
    ELSE [e EXCEPT !.th.held.st.execution_log.items = v]

\* validate_execution has returned: func is next
admitted(e) ==
    [e EXCEPT !.th = [NoThread EXCEPT !.pc = "admitted",
                                      !.under = e.st.status_type],
              !.result = NoOutcome]

\* decorated() returns or raises r: the call is over
finished(e, r) == [e EXCEPT !.th = [NoThread EXCEPT !.pc = "done"], !.result = r]

\* self.policy.status = new_status, written in validate_execution or in a
\* mark method: the setter is entered
assign(e, new_status, caller) ==
    [e EXCEPT !.th = [NoThread EXCEPT !.pc = "set_old",
                                      !.outcome = e.th.outcome,
                                      !.under = e.th.under,
                                      !.new_status = new_status,
                                      !.caller = caller]]

\* mark_failure / mark_success has returned: resilient_circuit saves the
\* state and then hands the outcome to the caller, highway_circutbreaker
\* hands it over at once
mark_returned(e) ==
    IF package = "resilient_circuit"
    THEN [e EXCEPT !.th = [NoThread EXCEPT !.pc = "save_state",
                                           !.outcome = e.th.outcome,
                                           !.under = e.th.under,
                                           !.caller = "decorated"]]
    ELSE finished(e, e.th.outcome)

\* the setter, or the _save_state that ends it, has returned
setter_returned(e) ==
    IF e.th.caller = "validate_execution" THEN admitted(e) ELSE mark_returned(e)

\* what the operation does in a race: it returns, raises an exception the
\* classifier counts, or raises one that is no Exception
RaceOutcomes ==
    {o \in Outcomes : o.what \in {"response", "RuntimeError", "KeyboardInterrupt"}}

\* the policies of a race: both packages, cooldowns 0 and MaxCooldown, a
\* window of one call; the policy has just been constructed
InitRace ==
    /\ package \in Packages
    /\ cooldown \in {0, MaxCooldown}
    /\ failure_limit = DEFAULT_THRESHOLD
    /\ success_limit = DEFAULT_THRESHOLD
    /\ breaker_should_handle = "RuntimeError"
    /\ now = 1
    /\ NoSecondPolicy
    /\ status_obj = IF package = "resilient_circuit" THEN rc_StatusClosed(0)
                    ELSE hw_StatusClosed
    /\ storage = NoState
    /\ notifications = <<>>
    /\ result = NoOutcome
    /\ pc = "idle"
    /\ outcome = NoOutcome
    /\ probes = 0
    /\ RetryWithBackoffPolicy(3, NoBackoff, "any")
    /\ NoSafetyNet
    /\ NoUnits
    /\ NoTwins

\* thread i enters decorated(): self._status is read for the guard check.
\* StatusClosed and StatusHalfOpen let the call through as it is;
\* StatusOpen goes on to read the clock.
ThreadCall(i) ==
    /\ threads[i].pc = "idle"
    /\ LET e == Step(i)
       IN  Commit(i, IF status = OPEN
                     THEN [e EXCEPT !.th = [NoThread EXCEPT !.pc = "validate",
                                                            !.held = Live]]
                     ELSE admitted(e))

\* StatusOpen.validate_execution of the status object read at entry: the
\* clock is read and compared with the end of the cooldown
ThreadValidate(i) ==
    /\ threads[i].pc = "validate"
    /\ LET e == Step(i)
           w == [World EXCEPT !.st = held_status(e.th)]
       IN  Commit(i, IF validate_execution(w, now, FALSE).error # "none"
                     THEN finished(e, RaisedBy("ProtectedCallError"))
                     ELSE IF package = "resilient_circuit"
                     THEN assign(e, HALF_OPEN, "validate_execution")
                     ELSE admitted(e))

\* the setter of policy.status, an access at a time: old_status is read;
\* for OPEN the clock is read, self._status is read as previous_status and
\* (resilient_circuit) its failure_count is read; the new status object is
\* built and assigned to self._status
ThreadAssign(i) ==
    LET e == Step(i)
        th == e.th
        rc == package = "resilient_circuit"
        previous_status == [held_status(th) EXCEPT !.execution_log = held_log(th),
                                                   !.failure_count = th.n]
        new == CASE th.new_status = CLOSED ->
                      IF rc THEN rc_StatusClosed(0) ELSE hw_StatusClosed
                 [] th.new_status = OPEN ->
                      IF rc THEN rc_StatusOpen(previous_status, th.t, now)
                      ELSE hw_StatusOpen(previous_status, th.t)
                 [] OTHER ->
                      IF rc THEN rc_StatusHalfOpen(0) ELSE hw_StatusHalfOpen
    IN  /\ th.pc \in {"set_old", "set_now", "set_load", "set_store"}
        /\ Commit(i,
             CASE th.pc = "set_old" ->
                    [e EXCEPT !.th.old_status = status,
                              !.th.pc = IF th.new_status # OPEN THEN "set_store"
                                        ELSE IF rc THEN "set_now" ELSE "set_load"]
               [] th.pc = "set_now" ->
                    [e EXCEPT !.th.t = IF rc THEN now + cooldown ELSE now,
                              !.th.pc = IF rc THEN "set_load" ELSE "set_store"]
               [] th.pc = "set_load" ->
                    [e EXCEPT !.th.held = Live,
                              !.th.n = status_obj.failure_count,
                              !.th.pc = IF rc THEN "set_store" ELSE "set_now"]
               [] OTHER ->
                    [e EXCEPT !.st = new,
                              !.probes = 0,
                              !.swap = IF th.new_status = OPEN /\ th.held.log = "live"
                                       THEN "shared" ELSE "fresh",
                              !.th.held = NoHeld,
                              !.th.t = 0,
                              !.th.n = 0,
                              !.th.pc = "notify"])

\* the setter calls the observer, which reads the policy's status; its
\* exception leaves the setter, and decorated(), with nothing saved
ThreadNotify(i) ==
    /\ threads[i].pc = "notify"
    /\ \E observer_raises \in BOOLEAN :
         LET th == threads[i]
             e == [Step(i) EXCEPT !.notifications =
                                      on_status_change([World EXCEPT !.notifications = <<>>],
                                                       th.old_status,
                                                       th.new_status).notifications,
                                  !.th.old_status = "none",
                                  !.th.new_status = "none"]
         IN  Commit(i, IF observer_raises
                       THEN finished(e, RaisedBy("ObserverError"))
                       ELSE IF package = "resilient_circuit"
                       THEN goto(e, "save_state")
                       ELSE setter_returned(e))

\* _save_state of resilient_circuit, an access at a time: the record is
\* built from self._status read for status_type, for failure_count, for
\* hasattr(open_until_timestamp) and for open_until_timestamp, and is then
\* given to storage.set_state, whose exception is caught
ThreadSave(i) ==
    LET e == Step(i)
        th == e.th
    IN  /\ th.pc \in {"save_state", "save_count", "save_has",
                      "save_until", "save_set"}
        /\ Commit(i,
             CASE th.pc = "save_state" ->
                    [e EXCEPT !.th.state_data = [NoState EXCEPT !.state = status],
                              !.th.pc = "save_count"]
               [] th.pc = "save_count" ->
                    [e EXCEPT !.th.state_data.failure_count =
                                  status_obj.failure_count,
                              !.th.pc = "save_has"]
               [] th.pc = "save_has" ->
                    goto(e, IF status = OPEN THEN "save_until" ELSE "save_set")
               [] th.pc = "save_until" ->
                    [e EXCEPT !.th.state_data.open_until =
                                  IF status = OPEN
                                  THEN status_obj.open_until_timestamp ELSE 0,
                              !.th.pc = "save_set"]
               [] OTHER ->
                    LET set == [e EXCEPT !.storage = IF storage_up
                                                     THEN th.state_data ELSE @]
                    IN  IF th.caller = "decorated"
                        THEN finished(set, th.outcome)
                        ELSE setter_returned(set))

\* func(*args, **kwargs) runs in thread i and returns or raises; an
\* exception that is no Exception leaves decorated() at once. The runs
\* under one OPEN status object are counted up to MaxProbes.
ThreadInvoke(i) ==
    /\ threads[i].pc = "admitted"
    /\ status = OPEN => probes < MaxProbes
    /\ \E o \in RaceOutcomes :
         LET e == [Step(i) EXCEPT !.th.pc = "returned",
                                  !.th.outcome = o,
                                  !.probes = IF status = OPEN THEN @ + 1 ELSE @]
         IN  Commit(i, IF uncaught(o) THEN finished(e, o) ELSE e)

\* thread i reports its outcome: self._status is read and its mark_failure
\* or mark_success entered. StatusOpen ignores a failure and assigns HALF_OPEN
\* on a success; the other two count (resilient_circuit: failure_count is
\* read and written back one higher, or written as 0) and add to the window.
ThreadMark(i) ==
    LET e == [Step(i) EXCEPT !.th.under = "none"]
        th == e.th
        rc == package = "resilient_circuit"
    IN  /\ th.pc \in {"returned", "count_write"}
        /\ Commit(i,
             CASE th.pc = "returned" ->
                    IF status = OPEN
                    THEN IF failed(th) THEN mark_returned(e)
                         ELSE assign(e, HALF_OPEN, "mark")
                    ELSE [e EXCEPT !.th.held = Live,
                                   !.th.n = IF rc /\ failed(th)
                                            THEN status_obj.failure_count ELSE 0,
                                   !.th.pc = IF rc THEN "count_write"
                                             ELSE "add_append"]
               [] OTHER ->
                    [write_count(e, IF failed(th) THEN th.n + 1 ELSE 0)
                        EXCEPT !.th.n = 0, !.th.pc = "add_append"])

\* GenericCircularBuffer.add, an access at a time: the item is appended to
\* _items, the last size items are read, and they are assigned to _items
ThreadAdd(i) ==
    LET e == Step(i)
        th == e.th
        log == held_log(th)
    IN  /\ th.pc \in {"add_append", "add_slice", "add_store"}
        /\ Commit(i,
             CASE th.pc = "add_append" ->
                    goto(write_items(e, Append(log.items, ~failed(th))), "add_slice")
               [] th.pc = "add_slice" ->
                    [e EXCEPT !.th.items = last_items(log), !.th.pc = "add_store"]
               [] OTHER ->
                    LET stored == [write_items(e, th.items) EXCEPT !.th.items = <<>>]
                    IN  IF held_status(th).status_type = CLOSED /\ ~failed(th)
                        THEN mark_returned(stored)
                        ELSE goto(stored, "full_len"))

\* the test that follows the add, an access at a time: is_full reads the
\* length; the rate reads the count of successes or of failures and then
\* the length again; the threshold decides the status to assign
ThreadCheck(i) ==
    LET e == Step(i)
        th == e.th
        log == held_log(th)
        closed == held_status(th).status_type = CLOSED
        by_success == ~closed /\ use_success
        rate == Fraction(th.n, Len(log.items))
        counted == [e EXCEPT !.th.n = 0]
    IN  /\ th.pc \in {"full_len", "rate_count", "rate_len"}
        /\ Commit(i,
             CASE th.pc = "full_len" ->
                    IF is_full(log) THEN goto(e, "rate_count") ELSE mark_returned(e)
               [] th.pc = "rate_count" ->
                    [e EXCEPT !.th.n = IF by_success THEN success_count(log)
                                       ELSE failure_count(log),
                              !.th.pc = "rate_len"]
               [] OTHER ->
                    IF by_success
                    THEN assign(counted, IF Fraction_ge(rate, success_limit)
                                         THEN CLOSED ELSE OPEN, "mark")
                    ELSE IF Fraction_ge(rate, failure_limit)
                    THEN assign(counted, OPEN, "mark")
                    ELSE IF closed THEN mark_returned(counted)
                    ELSE assign(counted, CLOSED, "mark"))

\* the clock is followed until a cooldown that began at instant 1 is over
ClockTick ==
    /\ now <= cooldown
    /\ Tick

NextRace ==
    \/ \E i \in Threads : ThreadCall(i)
    \/ \E i \in Threads : ThreadValidate(i)
    \/ \E i \in Threads : ThreadAssign(i)
    \/ \E i \in Threads : ThreadNotify(i)
    \/ \E i \in Threads : ThreadSave(i)
    \/ \E i \in Threads : ThreadInvoke(i)
    \/ \E i \in Threads : ThreadMark(i)
    \/ \E i \in Threads : ThreadAdd(i)
    \/ \E i \in Threads : ThreadCheck(i)
    \/ ClockTick

SpecRace == InitRace /\ [][NextRace]_vars

\* thread i reports an outcome: it reads self._status for the mark method
Reports(i) == threads[i].pc = "returned" /\ threads'[i].pc # "returned"

\* the circuit leaves OPEN for HALF_OPEN before the cooldown has elapsed
premature_half_open ==
    /\ status = OPEN
    /\ status' = HALF_OPEN
    /\ now < cooldown_expiry

\* C34: concurrent calls through one policy race. An outcome reaches a
\* status other than the one its call was admitted under, and the circuit
\* leaves OPEN for HALF_OPEN before the cooldown has elapsed, only when
\* the reporting call has run alongside a call of the other thread: no
\* serial order of the calls does either, and an interleaving of two
\* overlapping calls does both.
C34_RaceNeedsOverlap ==
    [][/\ premature_half_open => overlapped
       /\ \A i \in Threads :
            (Reports(i) /\ threads[i].under # status) => overlapped]_vars

\* the call of thread 1 has returned and left the circuit HALF_OPEN while
\* the clock still reads 1 and the cooldown is at least 1: a call of thread
\* 2 opened the circuit while it ran
C34_Witness ==
    /\ status = HALF_OPEN
    /\ now = 1
    /\ cooldown >= 1
    /\ threads[1].pc = "done"
    /\ busy(threads) = {}
    /\ result.kind = "return"

\* ---------------------------------------- the two packages side by side
\* One policy of each package, built with the same arguments, wraps the
\* same operation. The policy of resilient_circuit is the one of the
\* variables above; sibling is the policy of highway_circutbreaker, with the
\* position of its caller. Each call is made through both at the same
\* instants: the guard checks, then the operation, with the same outcome,
\* then the bookkeeping, with the same behaviour of the observer; the clock
\* can advance between any two of these steps. success_limit is read by a
\* HALF_OPEN status only: it is the default or one other value.
InitPair ==
    /\ package = "resilient_circuit"
    /\ cooldown \in {0, MaxCooldown}
    /\ failure_limit \in Thresholds
    /\ success_limit \in {DEFAULT_THRESHOLD, Fraction(1, 2)}
    /\ breaker_should_handle = "RuntimeError"
    /\ now = 1
    /\ status_obj = rc_StatusClosed(0)
    /\ storage = NoState
    /\ notifications = <<>>
    /\ pc = "idle"
    /\ outcome = NoOutcome
    /\ result = NoOutcome
    /\ probes = 0
    /\ RetryWithBackoffPolicy(3, NoBackoff, "any")
    /\ NoSafetyNet
    /\ NoSecondPolicy
    /\ NoUnits
    /\ threads = <<NoThread, NoThread>>
    /\ overlapped = FALSE
    /\ sibling = [st |-> hw_StatusClosed, pc |-> "idle", result |-> NoOutcome]
    /\ late = FALSE

\* the policy of highway_circutbreaker as a step of a call works on it
SiblingWorld ==
    [st |-> sibling.st, storage |-> NoState, notifications |-> <<>>,
     rates |-> <<>>, error |-> "none"]

\* decorated() of each policy is entered: the two guard checks
PairCall ==
    /\ UNCHANGED unit_vars
    /\ pc = "idle"
    /\ sibling.pc = "idle"
    /\ \E observer_raises \in BOOLEAN :
         LET rc_guarded == rc_validate_execution(
                               [World EXCEPT !.notifications = <<>>],
                               now, observer_raises)
             hw_guarded == hw_validate_execution(SiblingWorld, now)
         IN  /\ status_obj' = rc_guarded.st
             /\ storage' = rc_guarded.storage
             /\ notifications' = rc_guarded.notifications
             /\ pc' = IF rc_guarded.error = "none" THEN "admitted" ELSE "idle"
             /\ result' = IF rc_guarded.error = "none" THEN NoOutcome
                          ELSE [kind |-> "raise", what |-> rc_guarded.error]
             /\ sibling' =
                  [st |-> hw_guarded.st,
                   pc |-> IF hw_guarded.error = "none" THEN "admitted" ELSE "idle",
                   result |-> IF hw_guarded.error = "none" THEN NoOutcome
                              ELSE [kind |-> "raise", what |-> hw_guarded.error]]
    /\ outcome' = NoOutcome
    /\ late' = (late \/ (status = OPEN /\ now >= cooldown_expiry))
    /\ UNCHANGED <<config, now, probes, threads, overlapped,
                   retry_vars, net_vars, shared_vars>>

\* func(*args, **kwargs) runs, in each call that was admitted, and returns
\* or raises
PairInvoke ==
    /\ UNCHANGED unit_vars
    /\ pc = "admitted" \/ sibling.pc = "admitted"
    /\ outcome' \in Outcomes
    /\ pc' = IF pc = "admitted" THEN "returned" ELSE pc
    /\ sibling' = [sibling EXCEPT !.pc = IF @ = "admitted" THEN "returned" ELSE @]
    /\ UNCHANGED <<config, now, status_obj, storage, notifications, result, probes,
                   threads, overlapped, late, retry_vars, net_vars, shared_vars>>

\* each call whose operation has run reports the outcome to its live status
\* object and hands it to its caller
PairBookkeep ==
    /\ UNCHANGED unit_vars
    /\ pc = "returned" \/ sibling.pc = "returned"
    /\ \E observer_raises \in BOOLEAN :
         LET rc_marked == rc_bookkeeping(World, outcome, now, observer_raises)
             hw_marked == hw_bookkeeping(SiblingWorld, outcome, now, observer_raises)
         IN  /\ IF pc = "returned"
                THEN /\ status_obj' = rc_marked.st
                     /\ storage' = rc_marked.storage
                     /\ notifications' = rc_marked.notifications
                     /\ result' = call_result(rc_marked, outcome)
                ELSE UNCHANGED <<status_obj, storage, notifications, result>>
             /\ sibling' =
                  IF sibling.pc = "returned"
                  THEN [st |-> hw_marked.st, pc |-> "idle",
                        result |-> call_result(hw_marked, outcome)]
                  ELSE sibling
    /\ pc' = "idle"
    /\ outcome' = NoOutcome
    /\ UNCHANGED <<config, now, probes, threads, overlapped, late,
                   retry_vars, net_vars, shared_vars>>

NextPair == PairCall \/ PairInvoke \/ PairBookkeep \/ Tick

SpecPair == InitPair /\ [][NextPair]_vars

\* the two callers are at the same place, the two policies read the same
\* status, hold the same window and have given their callers the same result
siblings_agree ==
    /\ sibling.pc = pc
    /\ sibling.st.status_type = status
    /\ sibling.st.execution_log = execution_log
    /\ sibling.result = result

\* C40: built with the same arguments and called with the same sequence
\* of calls and clock advances, the policies of resilient_circuit and of
\* highway_circutbreaker give the same result and read the same status
\* and window after each call, as long as no call has arrived while the
\* breaker was OPEN at or after the expiry of the cooldown.
C40_SiblingsAgree == ~late => siblings_agree

\* both policies have opened at instant 2, under a cooldown of a tick or
\* more, and have rejected a call before the expiry
C40_Witness ==
    /\ ~late
    /\ pc = "idle"
    /\ status = OPEN
    /\ sibling.st.status_type = OPEN
    /\ cooldown >= 1
    /\ sibling.st.transitioned_at = 2
    /\ status_obj.open_until_timestamp = 2 + cooldown
    /\ result = RaisedBy("ProtectedCallError")
    /\ sibling.result = result

\* a call past the expiry has been made, and the policies differ
C40_Differ == late /\ ~siblings_agree

====
